---- MODULE Spec2Model ----
(***************************************************************************)
(* Model of the event-driven core of the todo platform:                    *)
(*   - the WebSocket connection manager (services/websocket-service),      *)
(*   - the chat dispatcher and its tool-server session (backend/agents,    *)
(*     backend/api/routes/chat.py),                                        *)
(*   - the reminder engine (backend/services/reminder_service.py,          *)
(*     backend/api/routes/dapr_callbacks.py, routes/reminders.py),         *)
(*   - the tool server (backend/mcp_server/server.py).                     *)
(* Each subsystem has its own next-state relation and specification; the   *)
(* variables of the other subsystems stay unchanged under it.              *)
(***************************************************************************)
EXTENDS Integers, Sequences, FiniteSets, TLC

Users == {"uA", "uB"}
NoUser == "none"

(***************************************************************************)
(* Bounds of the model.                                                    *)
(***************************************************************************)
MaxSockets == 2
MaxBroadcasts == 1
MaxRuns == 1
MaxStreamEvents == 2
MaxTime == 1
MaxReminders == 2
MaxInFlight == 2
MaxTasks == 2
MaxTags == 2
MaxWrites == 2
MaxChats == 2
MaxTicks == 3
MaxFetches == 3
MaxHour == 5
MaxYears == 1

Sockets == 1..MaxSockets
Runs == 1..MaxRuns

VARIABLES
  \* ---- WebSocket service ----
  jwt_secret,          \* settings.jwt_secret
  client_state,        \* websocket.client_state of each socket object
  wsPc,                \* position of websocket_endpoint for each socket
  regUser,             \* user_id each socket was passed to connect() with
  wsSubject,           \* authenticated_user_id of the endpoint (NoUser = None)
  active_connections,  \* ConnectionManager.active_connections (dict user -> set)
  all_connections,     \* ConnectionManager.all_connections
  user_map,            \* ConnectionManager._user_map (id(ws) -> user)
  bc,                  \* the broadcast_to_user call in flight
  hb,                  \* the send_heartbeat call in flight
  delivered,           \* task_update messages sent successfully: [sock, user, msg]
  nbc,                 \* number of broadcasts started
  \* ---- chat dispatcher (POST /chat/stream) ----
  chatPc,              \* position of send_message_stream.generate for each run
  chatUser,            \* current_user["id"] of the run
  sse,                 \* names of the SSE events the run has emitted, in order
  nStream,             \* number of SDK stream events the runner has consumed
  mcpSession,          \* the run's MCPServerStreamableHttp session: [open, url]
  toolLog,             \* tool invocations executed by the tool server for chat runs
  \* ---- database, sidecar and reminder engine ----
  now,                 \* the clock (naive UTC)
  tasks,               \* table tasks: id -> row
  tags,                \* table tags: id -> row
  task_tags,           \* table task_tags: set of <<task_id, tag_id>>
  nextTid,             \* next value of the tasks id sequence
  nextTagId,           \* next value of the tags id sequence
  reminders,           \* table reminders: id -> row
  nextRid,             \* next value of the reminders id sequence
  jobs,                \* live jobs of the sidecar's Jobs API: name -> [due, data]
  published,           \* events of the reminder engine the sidecar accepted
  cr,                  \* POST /reminders in flight (create_reminder)
  up,                  \* PATCH /reminders/{id} in flight (update_reminder)
  dl,                  \* DELETE /reminders/{id} in flight (delete_reminder)
  cb,                  \* POST /dapr/jobs/reminder in flight (reminder_job_callback)
  \* ---- tool server ----
  lastTool,            \* the last tool call: its session user and its result
  \* ---- event consumers ----
  notif,               \* notification service: events handled, events published
  lastWrite,           \* the last task write: route or tool, response, publish calls
  nWrites,             \* number of task writes so far
  inbox,               \* deliveries pending for each subscriber of the task topics
  audit,               \* audit service: deliveries handled, audit rows inserted
  recurring,           \* recurring task service: deliveries handled, tasks posted
  ws_out,              \* websocket service: the last handle_task_update call
  toolPair,            \* the last schedule_reminder + cancel_reminder pair of a chat
  toolCall,            \* the last call of a task tool: arguments' validity, result, row
  stream,              \* one /chat/stream request: runner events, SSE events, exception
  convo,               \* tables conversations and messages, and the chat requests on them
  jwks,                \* middleware/jwt_auth.py: the JWKS cache, the clock, fetch_jwks calls
  calc,                \* the last evaluation of a date function: input and result
  hooks                \* agents/hooks.py: the verbose callback and the runs that set it

wsVars == <<jwt_secret, client_state, wsPc, regUser, wsSubject, active_connections,
            all_connections, user_map, bc, hb, delivered, nbc>>

chatVars == <<chatPc, chatUser, sse, nStream, mcpSession, toolLog>>

taskVars == <<tasks, tags, task_tags, nextTid, nextTagId>>
dbVars == <<taskVars, reminders, nextRid>>
remVars == <<now, jobs, published, cr, up, dl, cb>>

pipeVars == <<lastWrite, nWrites, inbox, audit, recurring, ws_out>>
auxVars == <<jwks, calc, hooks>>
evVars == <<notif, pipeVars, toolPair, toolCall, stream, convo, auxVars>>

vars == <<wsVars, chatVars, dbVars, remVars, lastTool, evVars>>

notWS == <<chatVars, dbVars, remVars, lastTool, evVars>>
notChat == <<wsVars, dbVars, remVars, lastTool, evVars>>
notRem == <<wsVars, chatVars, lastTool, evVars>>
notTools == <<wsVars, chatVars, remVars, evVars>>

(***************************************************************************)
(* WebSocket service                                                       *)
(***************************************************************************)
DefaultSecret == "your-secret-key-change-in-production"

\* routes/websocket.py verify_jwt_token: the subject, or None.
verify_jwt_token(token) == IF token \in Users THEN token ELSE NoUser

\* The manager's three structures as one value.
Mgr == [ac |-> active_connections, all |-> all_connections, um |-> user_map]

\* ConnectionManager.connect, the part under the lock (lines 51-54).
connect(m, ws, user_id) ==
  [ac  |-> [u \in DOMAIN m.ac \cup {user_id} |->
              IF u = user_id
                THEN (IF u \in DOMAIN m.ac THEN m.ac[u] ELSE {}) \cup {ws}
                ELSE m.ac[u]],
   all |-> m.all \cup {ws},
   um  |-> [x \in DOMAIN m.um \cup {ws} |-> IF x = ws THEN user_id ELSE m.um[x]]]

\* a removal that leaves the user's entry in place when its set gets empty
disconnect_keeps_empty_entry(m, ws) ==
  LET user_id == IF ws \in DOMAIN m.um THEN m.um[ws] ELSE NoUser
  IN  [ac  |-> IF user_id # NoUser /\ user_id \in DOMAIN m.ac
                 THEN [m.ac EXCEPT ![user_id] = @ \ {ws}]
                 ELSE m.ac,
       all |-> m.all \ {ws},
       um  |-> [x \in DOMAIN m.um \ {ws} |-> m.um[x]]]

\* ConnectionManager.disconnect (lines 63-87).
disconnect(m, ws) ==
  LET user_id == IF ws \in DOMAIN m.um THEN m.um[ws] ELSE NoUser
      ac1 == IF user_id # NoUser /\ user_id \in DOMAIN m.ac
               THEN LET rest == m.ac[user_id] \ {ws}
                    IN  IF rest = {}
                          THEN [u \in DOMAIN m.ac \ {user_id} |-> m.ac[u]]
                          ELSE [m.ac EXCEPT ![user_id] = rest]
               ELSE m.ac
  IN  [ac  |-> ac1,
       all |-> m.all \ {ws},
       um  |-> [x \in DOMAIN m.um \ {ws} |-> m.um[x]]]

\* disconnect applied to every socket of a set (the loops at lines 156-157 and
\* 208-211); the order does not matter.
RECURSIVE disconnect_all(_, _)
disconnect_all(m, S) ==
  IF S = {} THEN m
  ELSE LET ws == CHOOSE x \in S : TRUE
       IN  disconnect_all(disconnect(m, ws), S \ {ws})

\* ConnectionManager: whether the method changes the structures inside
\* `async with self._lock`.  connect does (lines 51-54); disconnect is a plain
\* method that never takes the lock (lines 63-87), and it is what
\* broadcast_to_user, send_heartbeat, cleanup_stale_connections and the
\* endpoint's finally block call to evict a socket.
holds_lock(method) == method = "connect"

SetMgr(m) ==
  /\ active_connections' = m.ac
  /\ all_connections' = m.all
  /\ user_map' = m.um

\* A fan-out that ignores the per-user map: every connection, whatever its user.
broadcast_targets_all(m, user_id) == m.all

\* broadcast_to_user lines 125-132: the connections the message goes to.
broadcast_targets(m, user_id) ==
  IF user_id \in DOMAIN m.ac THEN m.ac[user_id] ELSE {}

NoBc == [active |-> FALSE, user |-> NoUser, msg |-> 0, todo |-> {}, disconnected |-> {}]
NoHb == [active |-> FALSE, todo |-> {}]

InitWS ==
  /\ jwt_secret \in {DefaultSecret, "s3cret"}
  /\ client_state = [s \in Sockets |-> "CONNECTING"]
  /\ wsPc = [s \in Sockets |-> "new"]
  /\ regUser = [s \in Sockets |-> NoUser]
  /\ wsSubject = [s \in Sockets |-> NoUser]
  /\ active_connections = << >>
  /\ all_connections = {}
  /\ user_map = << >>
  /\ bc = NoBc
  /\ hb = NoHb
  /\ delivered = {}
  /\ nbc = 0

\* websocket_endpoint lines 70-102: the authentication check of a new socket.
websocket_endpoint(ws, user_id, token) ==
  /\ wsPc[ws] = "new"
  /\ \A x \in Sockets : x < ws => wsPc[x] # "new"   \* socket objects are numbered as they arrive
  /\ LET devMode == jwt_secret = "" \/ jwt_secret = DefaultSecret
         authenticated_user_id == verify_jwt_token(token)
         reject == /\ ~devMode
                   /\ \/ token = "none"
                      \/ authenticated_user_id = NoUser
                      \/ authenticated_user_id # user_id
     IN  IF reject
           THEN /\ wsPc' = [wsPc EXCEPT ![ws] = "closed"]
                /\ client_state' = [client_state EXCEPT ![ws] = "DISCONNECTED"]
                /\ UNCHANGED <<regUser, wsSubject>>
           ELSE /\ wsPc' = [wsPc EXCEPT ![ws] = "accepting"]
                /\ regUser' = [regUser EXCEPT ![ws] = user_id]
                /\ wsSubject' = [wsSubject EXCEPT ![ws] =
                                   IF devMode THEN NoUser ELSE authenticated_user_id]
                /\ UNCHANGED client_state
  /\ UNCHANGED notWS
  /\ UNCHANGED <<jwt_secret, active_connections, all_connections, user_map, bc, hb,
                 delivered, nbc>>

\* ConnectionManager.connect: accept succeeds, the socket is registered.
ws_connect(ws) ==
  /\ wsPc[ws] = "accepting"
  /\ client_state[ws] = "CONNECTING"
  /\ client_state' = [client_state EXCEPT ![ws] = "CONNECTED"]
  /\ wsPc' = [wsPc EXCEPT ![ws] = "loop"]
  /\ SetMgr(connect(Mgr, ws, regUser[ws]))
  /\ UNCHANGED notWS
  /\ UNCHANGED <<jwt_secret, regUser, wsSubject, bc, hb, delivered, nbc>>

\* ConnectionManager.connect: accept raises (the client went away); the
\* exception leaves the endpoint before its try block.
ws_accept_fails(ws) ==
  /\ wsPc[ws] = "accepting"
  /\ client_state' = [client_state EXCEPT ![ws] = "DISCONNECTED"]
  /\ wsPc' = [wsPc EXCEPT ![ws] = "closed"]
  /\ UNCHANGED notWS
  /\ UNCHANGED <<jwt_secret, regUser, wsSubject, active_connections, all_connections,
                 user_map, bc, hb, delivered, nbc>>

\* The client side of a registered socket goes away.
client_drop(ws) ==
  /\ wsPc[ws] = "loop"
  /\ client_state[ws] = "CONNECTED"
  /\ client_state' = [client_state EXCEPT ![ws] = "DISCONNECTED"]
  /\ UNCHANGED notWS
  /\ UNCHANGED <<jwt_secret, wsPc, regUser, wsSubject, active_connections,
                 all_connections, user_map, bc, hb, delivered, nbc>>

\* websocket_endpoint lines 145-152: the receive loop ends (disconnect or
\* error) and the finally block calls broadcaster.disconnect.
ws_endpoint_exit(ws) ==
  /\ wsPc[ws] = "loop"
  /\ wsPc' = [wsPc EXCEPT ![ws] = "closed"]
  /\ client_state' = [client_state EXCEPT ![ws] = "DISCONNECTED"]
  /\ SetMgr(disconnect(Mgr, ws))
  /\ UNCHANGED notWS
  /\ UNCHANGED <<jwt_secret, regUser, wsSubject, bc, hb, delivered, nbc>>

\* broadcast_to_user lines 125-135: snapshot of the user's connections.
broadcast_start(user_id) ==
  /\ ~bc.active
  /\ nbc < MaxBroadcasts
  /\ nbc' = nbc + 1
  /\ LET connections == broadcast_targets(Mgr, user_id)
     IN  bc' = IF connections = {}
                 THEN NoBc
                 ELSE [active |-> TRUE, user |-> user_id, msg |-> nbc + 1,
                       todo |-> connections, disconnected |-> {}]
  /\ UNCHANGED notWS
  /\ UNCHANGED <<jwt_secret, client_state, wsPc, regUser, wsSubject,
                 active_connections, all_connections, user_map, hb, delivered>>

\* broadcast_to_user lines 137-162: one iteration of the send loop; after the
\* last one the disconnected sockets are evicted in the same step.
broadcast_send(connection, ok) ==
  /\ bc.active
  /\ connection \in bc.todo
  /\ LET stale == client_state[connection] # "CONNECTED"
         sent == ~stale /\ ok
         disc == IF sent THEN bc.disconnected ELSE bc.disconnected \cup {connection}
         todo == bc.todo \ {connection}
     IN  /\ delivered' = IF sent
                           THEN delivered \cup
                                  {[sock |-> connection, user |-> bc.user]}
                           ELSE delivered
         /\ IF todo = {}
              THEN /\ bc' = NoBc
                   /\ SetMgr(disconnect_all(Mgr, disc))
              ELSE /\ bc' = [bc EXCEPT !.todo = todo, !.disconnected = disc]
                   /\ UNCHANGED <<active_connections, all_connections, user_map>>
  /\ UNCHANGED notWS
  /\ UNCHANGED <<jwt_secret, client_state, wsPc, regUser, wsSubject, hb, nbc>>

\* cleanup_stale_connections lines 207-212.
cleanup_stale_connections(m) ==
  disconnect_all(m, {ws \in m.all : client_state[ws] # "CONNECTED"})

\* heartbeat_loop / send_heartbeat line 189: snapshot of all connections; with
\* none, cleanup_stale_connections follows at once.
heartbeat_start ==
  /\ ~hb.active
  /\ all_connections # {}
  /\ hb' = [active |-> TRUE, todo |-> all_connections]
  /\ UNCHANGED notWS
  /\ UNCHANGED <<jwt_secret, client_state, wsPc, regUser, wsSubject,
                 active_connections, all_connections, user_map, bc, delivered, nbc>>

\* send_heartbeat lines 189-196: one ping; a failed send evicts the socket.
\* After the last ping heartbeat_loop runs cleanup_stale_connections.
heartbeat_send(websocket, ok) ==
  /\ hb.active
  /\ websocket \in hb.todo
  /\ LET connected == client_state[websocket] = "CONNECTED"
         m1 == IF connected /\ ~ok THEN disconnect(Mgr, websocket) ELSE Mgr
         todo == hb.todo \ {websocket}
     IN  IF todo = {}
           THEN /\ hb' = NoHb
                /\ SetMgr(cleanup_stale_connections(m1))
           ELSE /\ hb' = [hb EXCEPT !.todo = todo]
                /\ SetMgr(m1)
  /\ UNCHANGED notWS
  /\ UNCHANGED <<jwt_secret, client_state, wsPc, regUser, wsSubject, bc, delivered, nbc>>

NextWS ==
  \* a token is absent ("none"), fails verification ("bad"), or verifies with
  \* subject u (the token is then written as u)
  \/ \E ws \in Sockets, u \in Users, t \in {"none", "bad"} \cup Users :
       websocket_endpoint(ws, u, t)
  \/ \E ws \in Sockets : ws_connect(ws)
  \/ \E ws \in Sockets : ws_accept_fails(ws)
  \/ \E ws \in Sockets : client_drop(ws)
  \/ \E ws \in Sockets : ws_endpoint_exit(ws)
  \/ \E u \in Users : broadcast_start(u)
  \/ \E ws \in Sockets, ok \in BOOLEAN : broadcast_send(ws, ok)
  \/ heartbeat_start
  \/ \E ws \in Sockets, ok \in BOOLEAN : heartbeat_send(ws, ok)


(***************************************************************************)
(* Chat dispatcher: POST /chat/stream                                      *)
(***************************************************************************)
\* The chunks the agent SDK's result.stream_events() can hand to the runner.
SdkEvents == {"text_delta", "agent_updated_stream_event", "tool_call_item",
              "tool_call_output_item", "message_output_item", "handoff_call_item",
              "handoff_output_item", "reasoning_item"}

\* run_agent_streamed lines 351-471: the StreamEvent type yielded for a chunk.
runner_event_type(ev) ==
  CASE ev = "text_delta" -> "token"
    [] ev = "agent_updated_stream_event" -> "agent_updated"
    [] ev = "tool_call_item" -> "tool_call"
    [] ev = "tool_call_output_item" -> "tool_result"
    [] ev = "message_output_item" -> "token"
    [] ev = "handoff_call_item" -> "handoff_call"
    [] ev = "handoff_output_item" -> "handoff"
    [] ev = "reasoning_item" -> "reasoning"

\* a loop that writes an SSE event for every StreamEvent type
chat_sse_every_type(type) == <<type>>

\* send_message_stream.generate lines 226-272: the SSE events written to the
\* client for one StreamEvent of the runner (none for "done" and for the
\* types the loop has no branch for).
chat_sse(type) ==
  IF type \in {"thinking", "token", "tool_call", "tool_result", "agent_updated", "error"}
    THEN <<type>>
    ELSE << >>

\* agents/config.py get_mcp_server_url: settings.MCP_SERVER_URL without a
\* trailing slash; the URL carries no query string.
get_mcp_server_url == [base |-> "MCP_SERVER_URL", user_id |-> NoUser]

\* mcp_server/server.py get_user_id_from_request: the user_id query parameter
\* of the session's URL; NoUser stands for the ValueError raised without one.
get_user_id_from_request(url) == url.user_id

InitChat ==
  /\ chatPc = [r \in Runs |-> "idle"]
  /\ chatUser = [r \in Runs |-> NoUser]
  /\ sse = [r \in Runs |-> << >>]
  /\ nStream = [r \in Runs |-> 0]
  /\ mcpSession = [r \in Runs |->
                    [open |-> FALSE, url |-> [base |-> "", user_id |-> NoUser]]]
  /\ toolLog = {}

Emit(r, events) == sse' = [sse EXCEPT ![r] = @ \o events]

\* send_message_stream lines 194-213: the request of an authenticated user;
\* conversation lookup, history and the user message are stored.  A failure
\* of the database is caught by `except Exception` (lines 312-319).
chat_begin(r, u, ok) ==
  /\ chatPc[r] = "idle"
  /\ \A x \in Runs : x < r => chatPc[x] # "idle"
  /\ chatUser' = [chatUser EXCEPT ![r] = u]
  /\ IF ok
       THEN chatPc' = [chatPc EXCEPT ![r] = "connect"] /\ UNCHANGED sse
       ELSE chatPc' = [chatPc EXCEPT ![r] = "end"] /\ Emit(r, <<"error">>)
  /\ UNCHANGED <<nStream, mcpSession, toolLog>>
  /\ UNCHANGED notChat

\* run_agent_streamed lines 266-313: the tool-server session is opened on
\* the configured URL and the thinking event is yielded.  If the connection
\* fails the exception is classified and yielded as an error event (lines
\* 495-511); generate relays it and its loop ends.
runner_connect(r, ok) ==
  /\ chatPc[r] = "connect"
  /\ IF ok
       THEN /\ mcpSession' = [mcpSession EXCEPT ![r] =
                                [open |-> TRUE, url |-> get_mcp_server_url]]
            /\ Emit(r, chat_sse("thinking"))
            /\ chatPc' = [chatPc EXCEPT ![r] = "stream"]
       ELSE /\ Emit(r, chat_sse("error"))
            /\ chatPc' = [chatPc EXCEPT ![r] = "persist"]
            /\ UNCHANGED mcpSession
  /\ UNCHANGED <<chatUser, nStream, toolLog>>
  /\ UNCHANGED notChat

\* run_agent_streamed lines 345-471: one chunk of the model's stream.  A
\* tool call is executed by the tool server over the run's session, with
\* the user the server derives from the session's URL.
runner_event(r, ev) ==
  /\ chatPc[r] = "stream"
  /\ nStream[r] < MaxStreamEvents
  /\ nStream' = [nStream EXCEPT ![r] = @ + 1]
  /\ Emit(r, chat_sse(runner_event_type(ev)))
  /\ toolLog' = IF ev = "tool_call_item"
                  THEN LET su == get_user_id_from_request(mcpSession[r].url)
                       IN  toolLog \cup
                             {[run |-> r, chat_user |-> chatUser[r], session_user |-> su,
                               status |-> IF su = NoUser THEN "error" ELSE "ok"]}
                  ELSE toolLog
  /\ UNCHANGED <<chatPc, chatUser, mcpSession>>
  /\ UNCHANGED notChat

\* run_agent_streamed lines 495-511: an exception in the agent loop closes
\* the session, is classified and yielded as an error event; generate relays
\* it (lines 267-272) and its loop ends.
runner_fail(r) ==
  /\ chatPc[r] = "stream"
  /\ mcpSession' = [mcpSession EXCEPT ![r].open = FALSE]
  /\ Emit(r, chat_sse("error"))
  /\ chatPc' = [chatPc EXCEPT ![r] = "persist"]
  /\ UNCHANGED <<chatUser, nStream, toolLog>>
  /\ UNCHANGED notChat

\* run_agent_streamed lines 473-493: the stream is exhausted, the session
\* closes and the runner yields done, for which generate emits nothing
\* (lines 262-264).  fallback: no content was streamed and final_output is
\* yielded as one token.
runner_finish(r, fallback) ==
  /\ chatPc[r] = "stream"
  /\ fallback => \A i \in 1..Len(sse[r]) : sse[r][i] # "token"
  /\ mcpSession' = [mcpSession EXCEPT ![r].open = FALSE]
  /\ Emit(r, (IF fallback THEN chat_sse("token") ELSE << >>) \o chat_sse("done_runner"))
  /\ chatPc' = [chatPc EXCEPT ![r] = "persist"]
  /\ UNCHANGED <<chatUser, nStream, toolLog>>
  /\ UNCHANGED notChat

\* send_message_stream.generate lines 274-286: after the runner's loop the
\* assistant message is stored and done is emitted; a failure of the store
\* is caught by `except Exception` and emitted as error (lines 312-319).
chat_finish(r, ok) ==
  /\ chatPc[r] = "persist"
  /\ Emit(r, IF ok THEN <<"done">> ELSE <<"error">>)
  /\ chatPc' = [chatPc EXCEPT ![r] = "end"]
  /\ UNCHANGED <<chatUser, nStream, mcpSession, toolLog>>
  /\ UNCHANGED notChat

\* The client disconnects: the generator is cancelled at the yield it is
\* suspended in; the async-with block closes the session on the way out.
client_disconnect(r) ==
  /\ chatPc[r] \in {"connect", "stream", "persist"}
  /\ chatPc' = [chatPc EXCEPT ![r] = "cancelled"]
  /\ mcpSession' = [mcpSession EXCEPT ![r].open = FALSE]
  /\ UNCHANGED <<chatUser, sse, nStream, toolLog>>
  /\ UNCHANGED notChat

NextChat ==
  \/ \E r \in Runs, u \in Users, ok \in BOOLEAN : chat_begin(r, u, ok)
  \/ \E r \in Runs, ok \in BOOLEAN : runner_connect(r, ok)
  \/ \E r \in Runs, ev \in SdkEvents : runner_event(r, ev)
  \/ \E r \in Runs : runner_fail(r)
  \/ \E r \in Runs, fallback \in BOOLEAN : runner_finish(r, fallback)
  \/ \E r \in Runs, ok \in BOOLEAN : chat_finish(r, ok)
  \/ \E r \in Runs : client_disconnect(r)

\* ---------------------------------------------------------------------------
\* Reminder engine: REST handlers, sidecar jobs, job callback
\* ---------------------------------------------------------------------------

TaskIds == 1..MaxTasks
TagIds == 1..MaxTags
Rids == 1..MaxReminders
Times == 0..MaxTime

Null == -1
NoJob == << >>

\* what a client can send as remind_at: a naive wall-clock value, or a
\* wall-clock value with a UTC offset
DateTimes ==
  {[wall |-> w, aware |-> FALSE, off |-> 0] : w \in Times} \cup
  {[wall |-> w, aware |-> TRUE, off |-> o] : w \in Times, o \in {0, 1}}


\* remind_at.replace(tzinfo=None) if remind_at.tzinfo else remind_at
remind_at_naive(dt) == dt.wall

job_name(id) == <<"reminder", id>>

Reminder(task_id, user_id, remind_at) ==
  [task_id |-> task_id, user_id |-> user_id, remind_at |-> remind_at,
   status |-> "pending", sent_at |-> Null, dapr_job_name |-> NoJob]

\* select(Reminder).where(Reminder.id == reminder_id, Reminder.user_id == user_id)
get_reminder_by_id(reminder_id, user_id) ==
  /\ reminder_id \in DOMAIN reminders
  /\ reminders[reminder_id].user_id = user_id

\* select(Task).where(Task.id == task_id, Task.user_id == user_id)
task_owned(task_id, user_id) ==
  /\ task_id \in DOMAIN tasks
  /\ tasks[task_id].user_id = user_id

Insert(f, k, v) == [x \in DOMAIN f \cup {k} |-> IF x = k THEN v ELSE f[x]]
Remove(f, k) == [x \in DOMAIN f \ {k} |-> f[x]]

\* DaprClient.schedule_job: True and the job is registered, or False
schedule_job(js, name, due, data, ok) ==
  IF ok THEN Insert(js, name, [due |-> due, data |-> data]) ELSE js

\* DaprClient.cancel_job: the job is removed when the sidecar answers
cancel_job(js, name, ok) ==
  IF ok /\ name \in DOMAIN js THEN Remove(js, name) ELSE js

\* the event fire_past_due_reminder hands to publish_event
past_due_event ==
  [path |-> "past_due", pubsub_name |-> "pubsub-kafka",
   topic |-> "reminder-events", event_type |-> "reminder.due",
   fields |-> {"event_type", "reminder_id", "task_id", "user_id", "title",
               "due_at", "remind_at", "correlation_id"}]

\* the event reminder_job_callback hands to publish_event
callback_event ==
  [path |-> "callback", pubsub_name |-> "kafka-pubsub",
   topic |-> "reminders", event_type |-> "reminder_due",
   fields |-> {"reminder_id", "task_id", "user_id", "remind_at",
               "event_type"}]

IdleCr == [pc |-> "idle", rid |-> 0, task_id |-> 0, user_id |-> NoUser,
           remind_at |-> 0, past_due |-> FALSE, scheduled |-> 0, pubs |-> 0,
           ok |-> FALSE, status |-> "pending", sent_at |-> Null]
IdleUp == [pc |-> "idle", rid |-> 0, task_id |-> 0, user_id |-> NoUser,
           remind_at |-> 0, name |-> NoJob, ok |-> FALSE]
IdleDl == [pc |-> "idle", rid |-> 0, name |-> NoJob]
IdleCb == [pc |-> "idle", data |-> [reminder_id |-> 0, task_id |-> 0,
                                    user_id |-> NoUser], ok |-> FALSE]

\* Python's None where a string is expected
None == "None"

\* a new row of table tasks: not completed
Task(user_id, recurrence_pattern, due_date) ==
  [user_id |-> user_id, title |-> "title", completed |-> FALSE,
   priority |-> "medium", due_date |-> due_date, is_recurring |-> FALSE,
   recurrence_pattern |-> recurrence_pattern, recurrence_data |-> Null,
   next_occurrence |-> Null]

\* one task, owned by uA; no tags, links or reminders yet
InitDB ==
  /\ tasks = [t \in {1} |-> Task("uA", None, Null)]
  /\ nextTid = 2
  /\ tags = << >>
  /\ nextTagId = 1
  /\ task_tags = {}
  /\ reminders = << >>
  /\ nextRid = 1

InitRem ==
  /\ now = 0
  /\ jobs = << >>
  /\ published = {}
  /\ cr = IdleCr
  /\ up = IdleUp
  /\ dl = IdleDl
  /\ cb = IdleCb

Busy(pc) == IF pc \in {"idle", "done"} THEN 0 ELSE 1

\* requests of the reminder engine that are between two awaits
InFlight == Busy(cr.pc) + Busy(up.pc) + Busy(dl.pc) + Busy(cb.pc)

\* what the caller of a finished create holds: the counts and the row as
\* last refreshed
Response(c, status, sent_at) ==
  [IdleCr EXCEPT !.pc = "done", !.past_due = c.past_due,
                 !.scheduled = c.scheduled, !.pubs = c.pubs, !.ok = c.ok,
                 !.status = status, !.sent_at = sent_at]

\* the clock advances
Tick ==
  /\ now < MaxTime
  /\ now' = now + 1
  /\ UNCHANGED <<dbVars, jobs, published, cr, up, dl, cb>>
  /\ UNCHANGED notRem

\* POST /reminders, up to the first await after the insert: ownership of the
\* task, normalisation of remind_at, insert of the pending row, and the
\* past-due test on the stripped value
create_reminder(user_id, task_id, remind_at) ==
  /\ cr.pc \in {"idle", "done"}
  /\ InFlight < MaxInFlight
  /\ nextRid <= MaxReminders
  /\ task_owned(task_id, user_id)
  /\ reminders' = Insert(reminders, nextRid,
                         Reminder(task_id, user_id, remind_at_naive(remind_at)))
  /\ nextRid' = nextRid + 1
  /\ cr' = [IdleCr EXCEPT
              !.pc = IF remind_at_naive(remind_at) <= now
                       THEN "fire" ELSE "schedule",
              !.rid = nextRid, !.task_id = task_id, !.user_id = user_id,
              !.remind_at = remind_at_naive(remind_at),
              !.past_due = (remind_at.wall - remind_at.off <= now)]
  /\ UNCHANGED <<taskVars, now, jobs, published, up, dl, cb>>
  /\ UNCHANGED notRem

\* POST /reminders for a task that is not the caller's: 404, nothing written
create_reminder_not_found(user_id, task_id) ==
  /\ cr.pc \in {"idle", "done"}
  /\ ~task_owned(task_id, user_id)
  /\ cr' = IdleCr
  /\ UNCHANGED <<dbVars, now, jobs, published, up, dl, cb>>
  /\ UNCHANGED notRem

\* fire_past_due_reminder: the publish
fire_past_due_reminder(ok) ==
  /\ cr.pc = "fire"
  /\ published' = IF ok THEN published \cup {past_due_event} ELSE published
  /\ cr' = [cr EXCEPT !.pc = "fire_commit", !.pubs = @ + 1, !.ok = ok]
  /\ UNCHANGED <<dbVars, now, jobs, up, dl, cb>>
  /\ UNCHANGED notRem

\* fire_past_due_reminder: the commit of sent + sent_at, or of failed; the
\* UPDATE of a row that is gone raises and the route answers 500
fire_past_due_commit ==
  /\ cr.pc = "fire_commit"
  /\ IF cr.rid \in DOMAIN reminders
       THEN /\ reminders' =
                 [reminders EXCEPT ![cr.rid] =
                    IF cr.ok THEN [@ EXCEPT !.status = "sent", !.sent_at = now]
                             ELSE [@ EXCEPT !.status = "failed"]]
            /\ cr' = Response(cr, IF cr.ok THEN "sent" ELSE "failed",
                              IF cr.ok THEN now ELSE Null)
       ELSE /\ cr' = IdleCr
            /\ UNCHANGED reminders
  /\ UNCHANGED <<taskVars, nextRid, now, jobs, published, up, dl, cb>>
  /\ UNCHANGED notRem

\* create_reminder: DaprClient.schedule_job for a reminder taken as future
create_schedule_job(ok) ==
  /\ cr.pc = "schedule"
  /\ jobs' = schedule_job(jobs, job_name(cr.rid), cr.remind_at,
                          [reminder_id |-> cr.rid, task_id |-> cr.task_id,
                           user_id |-> cr.user_id], ok)
  /\ cr' = IF ok THEN [cr EXCEPT !.pc = "store", !.scheduled = @ + 1]
                 ELSE Response([cr EXCEPT !.scheduled = @ + 1],
                               "pending", Null)
  /\ UNCHANGED <<dbVars, now, published, up, dl, cb>>
  /\ UNCHANGED notRem

\* create_reminder: reminder.dapr_job_name = job_name; commit
create_store_job_name ==
  /\ cr.pc = "store"
  /\ IF cr.rid \in DOMAIN reminders
       THEN /\ reminders' = [reminders EXCEPT
                               ![cr.rid].dapr_job_name = job_name(cr.rid)]
            /\ cr' = Response(cr, reminders[cr.rid].status,
                              reminders[cr.rid].sent_at)
       ELSE /\ cr' = IdleCr
            /\ UNCHANGED reminders
  /\ UNCHANGED <<taskVars, nextRid, now, jobs, published, up, dl, cb>>
  /\ UNCHANGED notRem

\* PATCH /reminders/{id}: the route's lookup and status test, the service's
\* test of the new time, up to the first await
update_reminder(user_id, reminder_id, remind_at) ==
  /\ up.pc = "idle"
  /\ InFlight < MaxInFlight
  /\ IF /\ get_reminder_by_id(reminder_id, user_id)
        /\ reminders[reminder_id].status = "pending"
        /\ remind_at_naive(remind_at) > now
       THEN up' = [pc |-> IF reminders[reminder_id].dapr_job_name # NoJob
                            THEN "cancel" ELSE "schedule",
                   rid |-> reminder_id,
                   task_id |-> reminders[reminder_id].task_id,
                   user_id |-> user_id,
                   remind_at |-> remind_at_naive(remind_at),
                   name |-> reminders[reminder_id].dapr_job_name,
                   ok |-> FALSE]
       ELSE up' = IdleUp
  /\ UNCHANGED <<dbVars, now, jobs, published, cr, dl, cb>>
  /\ UNCHANGED notRem

\* update_reminder: DaprClient.cancel_job(reminder.dapr_job_name), result unused
update_cancel_job(ok) ==
  /\ up.pc = "cancel"
  /\ jobs' = cancel_job(jobs, up.name, ok)
  /\ up' = [up EXCEPT !.pc = "schedule"]
  /\ UNCHANGED <<dbVars, now, published, cr, dl, cb>>
  /\ UNCHANGED notRem

\* update_reminder: DaprClient.schedule_job for the new time
update_schedule_job(ok) ==
  /\ up.pc = "schedule"
  /\ jobs' = schedule_job(jobs, job_name(up.rid), up.remind_at,
                          [reminder_id |-> up.rid, task_id |-> up.task_id,
                           user_id |-> up.user_id], ok)
  /\ up' = [up EXCEPT !.pc = "commit", !.ok = ok]
  /\ UNCHANGED <<dbVars, now, published, cr, dl, cb>>
  /\ UNCHANGED notRem

\* update_reminder: commit of remind_at and dapr_job_name, the two attributes
\* the handler assigned
update_commit ==
  /\ up.pc = "commit"
  /\ IF up.rid \in DOMAIN reminders
       THEN /\ reminders' = [reminders EXCEPT
                 ![up.rid].remind_at = up.remind_at,
                 ![up.rid].dapr_job_name =
                     IF up.ok THEN job_name(up.rid) ELSE NoJob]
            /\ up' = IdleUp
       ELSE /\ up' = IdleUp
            /\ UNCHANGED reminders
  /\ UNCHANGED <<taskVars, nextRid, now, jobs, published, cr, dl, cb>>
  /\ UNCHANGED notRem

\* DELETE /reminders/{id}: the route's lookup, up to the first await
delete_reminder(user_id, reminder_id) ==
  /\ dl.pc = "idle"
  /\ InFlight < MaxInFlight
  /\ IF get_reminder_by_id(reminder_id, user_id)
       THEN dl' = [pc |-> IF reminders[reminder_id].dapr_job_name # NoJob
                            THEN "cancel" ELSE "delete",
                   rid |-> reminder_id,
                   name |-> reminders[reminder_id].dapr_job_name]
       ELSE dl' = IdleDl
  /\ UNCHANGED <<dbVars, now, jobs, published, cr, up, cb>>
  /\ UNCHANGED notRem

\* delete_reminder: DaprClient.cancel_job(reminder.dapr_job_name), result unused
delete_cancel_job(ok) ==
  /\ dl.pc = "cancel"
  /\ jobs' = cancel_job(jobs, dl.name, ok)
  /\ dl' = [dl EXCEPT !.pc = "delete"]
  /\ UNCHANGED <<dbVars, now, published, cr, up, cb>>
  /\ UNCHANGED notRem

\* delete_reminder: session.delete(reminder); commit
delete_commit ==
  /\ dl.pc = "delete"
  /\ IF dl.rid \in DOMAIN reminders
       THEN /\ reminders' = Remove(reminders, dl.rid)
            /\ dl' = IdleDl
       ELSE /\ dl' = IdleDl
            /\ UNCHANGED reminders
  /\ UNCHANGED <<taskVars, nextRid, now, jobs, published, cr, up, cb>>
  /\ UNCHANGED notRem

\* the sidecar fires a live job whose time has come and posts its data to
\* /dapr/jobs/reminder; a one-shot job is gone once fired
job_fire(name) ==
  /\ cb.pc = "idle"
  /\ InFlight < MaxInFlight
  /\ name \in DOMAIN jobs
  /\ jobs[name].due <= now
  /\ jobs' = Remove(jobs, name)
  /\ cb' = [IdleCb EXCEPT !.pc = "lookup", !.data = jobs[name].data]
  /\ UNCHANGED <<dbVars, now, published, cr, up, dl>>
  /\ UNCHANGED notRem

\* reminder_job_callback: get_reminder_by_id; a missing row is skipped; the
\* status of the row is not looked at
reminder_job_callback ==
  /\ cb.pc = "lookup"
  /\ cb' = IF get_reminder_by_id(cb.data.reminder_id, cb.data.user_id)
             THEN [cb EXCEPT !.pc = "publish"]
             ELSE IdleCb
  /\ UNCHANGED <<dbVars, now, jobs, published, cr, up, dl>>
  /\ UNCHANGED notRem

\* reminder_job_callback: DaprClient.publish_event
callback_publish(ok) ==
  /\ cb.pc = "publish"
  /\ published' = IF ok THEN published \cup {callback_event} ELSE published
  /\ cb' = [cb EXCEPT !.pc = "mark", !.ok = ok]
  /\ UNCHANGED <<dbVars, now, jobs, cr, up, dl>>
  /\ UNCHANGED notRem

\* ReminderService.mark_reminder_sent: status and sent_at are written
mark_reminder_sent(row) == [row EXCEPT !.status = "sent", !.sent_at = now]

\* ReminderService.mark_reminder_failed: status alone is written
mark_reminder_failed(row) == [row EXCEPT !.status = "failed"]

\* reminder_job_callback: mark sent or failed by the publish outcome; the
\* UPDATE of a row that is gone raises, which the handler catches
callback_mark ==
  /\ cb.pc = "mark"
  /\ IF cb.data.reminder_id \in DOMAIN reminders
       THEN reminders' = [reminders EXCEPT ![cb.data.reminder_id] =
                            IF cb.ok THEN mark_reminder_sent(@)
                                     ELSE mark_reminder_failed(@)]
       ELSE UNCHANGED reminders
  /\ cb' = IdleCb
  /\ UNCHANGED <<taskVars, nextRid, now, jobs, published, cr, up, dl>>
  /\ UNCHANGED notRem

\* ---------------------------------------------------------------------------
\* Tool server: each tool is a function of the session's user, its arguments
\* and the tables; it gives a result and the tables as it leaves them
\* ---------------------------------------------------------------------------

\* the tables untouched and nothing returned but a status
Out(status) ==
  [status |-> status, tasks |-> tasks, tags |-> tags, task_tags |-> task_tags,
   reminders |-> reminders, nextTid |-> nextTid, nextTagId |-> nextTagId,
   nextRid |-> nextRid, read_tasks |-> {}, read_tags |-> {}]

\* select(Tag).where(Tag.id == tag_id, Tag.user_id == user_id)
tag_owned(tag_id, user_id) ==
  /\ tag_id \in DOMAIN tags
  /\ tags[tag_id].user_id = user_id

\* select(Tag).join(TaskTag).where(TaskTag.task_id == task_id)
tags_of_task(links, task_id) == {l[2] : l \in {k \in links : k[1] = task_id}}

\* ON DELETE CASCADE from tasks to task_tags and reminders
cascade_task(out, task_id) ==
  [out EXCEPT
     !.tasks = Remove(@, task_id),
     !.task_tags = {l \in @ : l[1] # task_id},
     !.reminders = [r \in {x \in DOMAIN @ : @[x].task_id # task_id} |-> @[r]]]

\* the patterns the validations accept
VALID_PATTERNS == {"daily", "weekly", "monthly", "yearly"}

\* add_task: the priority must be one of the three; a recurrence_pattern that
\* is truthy must be valid (None and "" pass); the pattern is stored only
\* when is_recurring is set
add_task(user_id, tag_ids, priority, is_recurring, recurrence_pattern) ==
  IF \/ priority \notin {"low", "medium", "high"}
     \/ recurrence_pattern \notin {None, ""} \cup VALID_PATTERNS
     \/ \E g \in tag_ids : ~tag_owned(g, user_id)
    THEN Out("error")
    ELSE [Out("created") EXCEPT
            !.tasks = Insert(@, nextTid,
                        [Task(user_id, None, Null) EXCEPT
                           !.priority = priority,
                           !.is_recurring = is_recurring,
                           !.recurrence_pattern =
                              IF is_recurring THEN recurrence_pattern
                                              ELSE None]),
            !.nextTid = @ + 1,
            !.task_tags = @ \cup {<<nextTid, g>> : g \in tag_ids},
            !.read_tags = tag_ids \cap DOMAIN tags]

list_tasks(user_id, tag_ids) ==
  LET found == {t \in DOMAIN tasks :
                  /\ tasks[t].user_id = user_id
                  /\ tag_ids # {} =>
                       \E g \in tag_ids : <<t, g>> \in task_tags}
  IN [Out("success") EXCEPT
        !.read_tasks = found,
        !.read_tags = UNION {tags_of_task(task_tags, t) : t \in found}]

complete_task(user_id, task_id) ==
  IF ~task_owned(task_id, user_id)
    THEN Out("error")
    ELSE [Out("completed") EXCEPT !.tasks[task_id].completed = TRUE,
                                  !.read_tasks = {task_id}]

delete_task(user_id, task_id) ==
  IF ~task_owned(task_id, user_id)
    THEN Out("error")
    ELSE cascade_task([Out("deleted") EXCEPT !.read_tasks = {task_id}],
                      task_id)

add_tag(user_id, name) ==
  IF \E g \in DOMAIN tags : tags[g].user_id = user_id /\ tags[g].name = name
    THEN Out("error")
    ELSE [Out("created") EXCEPT
            !.tags = Insert(@, nextTagId, [user_id |-> user_id, name |-> name]),
            !.nextTagId = @ + 1]

list_tags(user_id) ==
  [Out("success") EXCEPT
     !.read_tags = {g \in DOMAIN tags : tags[g].user_id = user_id}]

delete_tag(user_id, tag_id) ==
  IF ~tag_owned(tag_id, user_id)
    THEN Out("error")
    ELSE [Out("deleted") EXCEPT
            !.tags = Remove(@, tag_id),
            !.task_tags = {l \in @ : l[2] # tag_id},
            !.read_tags = {tag_id}]

tag_task(user_id, task_id, tag_ids) ==
  IF tag_ids = {} \/ ~task_owned(task_id, user_id)
       \/ \E g \in tag_ids : ~tag_owned(g, user_id)
    THEN Out("error")
    ELSE LET links == task_tags \cup {<<task_id, g>> : g \in tag_ids}
         IN [Out("updated") EXCEPT
               !.task_tags = links,
               !.read_tasks = {task_id},
               !.read_tags = tags_of_task(links, task_id)]

untag_task(user_id, task_id, tag_ids) ==
  IF tag_ids = {} \/ ~task_owned(task_id, user_id)
       \/ \E g \in tag_ids : ~tag_owned(g, user_id)
    THEN Out("error")
    ELSE LET links == task_tags \ {<<task_id, g>> : g \in tag_ids}
         IN [Out("updated") EXCEPT
               !.task_tags = links,
               !.read_tasks = {task_id},
               !.read_tags = tags_of_task(links, task_id)]

schedule_reminder(user_id, task_id, remind_at) ==
  IF \/ remind_at_naive(remind_at) <= now
     \/ ~task_owned(task_id, user_id)
     \/ \E r \in DOMAIN reminders :
          /\ reminders[r].task_id = task_id
          /\ reminders[r].user_id = user_id
          /\ reminders[r].status = "pending"
    THEN Out("error")
    ELSE [Out("created") EXCEPT
            !.reminders = Insert(@, nextRid,
                Reminder(task_id, user_id, remind_at_naive(remind_at))),
            !.nextRid = @ + 1,
            !.read_tasks = {task_id}]

\* A cancel that closes the reminder and keeps its row.
cancel_reminder_keeps_row(rows, user_id, reminder_id) ==
  IF ~(reminder_id \in DOMAIN rows /\ rows[reminder_id].user_id = user_id)
    THEN Out("error")
    ELSE [Out("deleted") EXCEPT
            !.reminders = rows,
            !.read_tasks = {rows[reminder_id].task_id} \cap DOMAIN tasks]

\* the cancel_reminder tool on the reminders table rows
cancel_reminder(rows, user_id, reminder_id) ==
  IF ~(reminder_id \in DOMAIN rows /\ rows[reminder_id].user_id = user_id)
    THEN Out("error")
    ELSE [Out("deleted") EXCEPT
            !.reminders = Remove(rows, reminder_id),
            !.read_tasks = {rows[reminder_id].task_id} \cap DOMAIN tasks]

\* the URLs of the tool-server sessions: one opened for a user, or the bare one
SessionUrls ==
  {[base |-> "MCP_SERVER_URL", user_id |-> u] : u \in Users}
    \cup {get_mcp_server_url}

\* a tool body inside its try/except: without a user_id on the session URL
\* get_user_id_from_request raises, and anything raised in the body is caught
\* by except Exception; the tool then answers with an error
tool(url, out) ==
  IF get_user_id_from_request(url) = NoUser \/ out.status = "raised"
    THEN Out("error")
    ELSE out

\* some row among the given ids exists and belongs to somebody else
foreign(user_id, task_ids, tag_ids) ==
  \/ \E t \in task_ids \cap DOMAIN tasks : tasks[t].user_id # user_id
  \/ \E g \in tag_ids \cap DOMAIN tags : tags[g].user_id # user_id

InitTools ==
  lastTool = [status |-> "none", named_foreign |-> FALSE,
              read_foreign |-> FALSE, changed |-> FALSE]

\* one tool call on a session: the tables become what the tool left, and the
\* result is kept with what it named and what it returned
tool_call(url, out, task_ids, tag_ids) ==
  LET user_id == get_user_id_from_request(url)
      res == tool(url, out)
  IN /\ res.nextTid <= MaxTasks + 1
     /\ res.nextTagId <= MaxTags + 1
     /\ res.nextRid <= MaxReminders + 1
     /\ tasks' = res.tasks
     /\ tags' = res.tags
     /\ task_tags' = res.task_tags
     /\ reminders' = res.reminders
     /\ nextTid' = res.nextTid
     /\ nextTagId' = res.nextTagId
     /\ nextRid' = res.nextRid
     /\ lastTool' =
          [status |-> res.status,
           named_foreign |-> foreign(user_id, task_ids, tag_ids),
           read_foreign |-> foreign(user_id, res.read_tasks, res.read_tags),
           changed |-> <<res.tasks, res.tags, res.task_tags, res.reminders>>
                         # <<tasks, tags, task_tags, reminders>>]
     /\ UNCHANGED notTools

call_add_task(url, tag_ids) ==
  tool_call(url, add_task(get_user_id_from_request(url), tag_ids, "medium",
                          FALSE, None),
            {}, tag_ids)

call_list_tasks(url, tag_ids) ==
  tool_call(url, list_tasks(get_user_id_from_request(url), tag_ids),
            {}, tag_ids)

call_complete_task(url, task_id) ==
  tool_call(url, complete_task(get_user_id_from_request(url), task_id),
            {task_id}, {})

call_delete_task(url, task_id) ==
  tool_call(url, delete_task(get_user_id_from_request(url), task_id),
            {task_id}, {})

call_add_tag(url, name) ==
  tool_call(url, add_tag(get_user_id_from_request(url), name), {}, {})

call_list_tags(url) ==
  tool_call(url, list_tags(get_user_id_from_request(url)), {}, {})

call_delete_tag(url, tag_id) ==
  tool_call(url, delete_tag(get_user_id_from_request(url), tag_id),
            {}, {tag_id})

call_tag_task(url, task_id, tag_ids) ==
  tool_call(url, tag_task(get_user_id_from_request(url), task_id, tag_ids),
            {task_id}, tag_ids)

call_untag_task(url, task_id, tag_ids) ==
  tool_call(url, untag_task(get_user_id_from_request(url), task_id, tag_ids),
            {task_id}, tag_ids)

\* REST POST /tasks (TaskService.create_task): the task is inserted and one
\* task_tags row is added per tag id of the request; the tag ids are checked
\* by the foreign key alone
create_task(user_id, tag_ids) ==
  /\ nextTid <= MaxTasks
  /\ tag_ids \subseteq DOMAIN tags
  /\ tasks' = Insert(tasks, nextTid, Task(user_id, None, Null))
  /\ nextTid' = nextTid + 1
  /\ task_tags' = task_tags \cup {<<nextTid, g>> : g \in tag_ids}
  /\ UNCHANGED <<tags, nextTagId, reminders, nextRid, lastTool>>
  /\ UNCHANGED notTools

NextTools ==
  \/ \E url \in SessionUrls, gs \in SUBSET TagIds : call_add_task(url, gs)
  \/ \E url \in SessionUrls, gs \in SUBSET TagIds : call_list_tasks(url, gs)
  \/ \E url \in SessionUrls, t \in TaskIds : call_complete_task(url, t)
  \/ \E url \in SessionUrls, t \in TaskIds : call_delete_task(url, t)
  \/ \E url \in SessionUrls, n \in {"work", "home"} : call_add_tag(url, n)
  \/ \E url \in SessionUrls : call_list_tags(url)
  \/ \E url \in SessionUrls, g \in TagIds : call_delete_tag(url, g)
  \/ \E url \in SessionUrls, t \in TaskIds, gs \in SUBSET TagIds :
       call_tag_task(url, t, gs)
  \/ \E url \in SessionUrls, t \in TaskIds, gs \in SUBSET TagIds :
       call_untag_task(url, t, gs)
  \/ \E u \in Users, gs \in SUBSET TagIds : create_task(u, gs)

\* add_task with tag_ids as the list it is: the tags are verified one by one,
\* the task is added and committed (lines 168-181), then one TaskTag per list
\* element is added and committed (183-193). A tag id that is in the list
\* twice gives two rows with one primary key (task_id, tag_id): the flush
\* raises, the links are rolled back, except Exception answers with an error,
\* and the task committed before stays
add_task_tag_list(user_id, tag_ids) ==
  LET ids == {tag_ids[i] : i \in DOMAIN tag_ids}
  IN  IF \E g \in ids : ~tag_owned(g, user_id)
        THEN Out("error")
        ELSE IF Cardinality(ids) < Len(tag_ids)
          THEN [Out("error") EXCEPT
                  !.tasks = Insert(@, nextTid, Task(user_id, None, Null)),
                  !.nextTid = @ + 1,
                  !.read_tags = ids]
          ELSE add_task(user_id, ids, "medium", FALSE, None)

call_add_task_tag_list ==
  \E url \in SessionUrls, tag_ids \in UNION {[1..n -> TagIds] : n \in 0..2} :
    tool_call(url,
              add_task_tag_list(get_user_id_from_request(url), tag_ids),
              {}, {tag_ids[i] : i \in DOMAIN tag_ids})

\* the tools, add_task called with any short list of tag ids
NextToolErrors ==
  \/ NextTools
  \/ call_add_task_tag_list

\* the schedule_reminder tool as the reminder engine sees it: a new pending
\* row appears
tool_schedule_reminder(user_id, task_id, remind_at) ==
  LET res == schedule_reminder(user_id, task_id, remind_at)
  IN /\ res.status = "created"
     /\ nextRid <= MaxReminders
     /\ reminders' = res.reminders
     /\ nextRid' = res.nextRid
     /\ UNCHANGED <<taskVars, remVars>>
     /\ UNCHANGED notRem

\* the cancel_reminder tool as the reminder engine sees it: the row is gone,
\* the sidecar was not called
tool_cancel_reminder(user_id, reminder_id) ==
  LET res == cancel_reminder(reminders, user_id, reminder_id)
  IN /\ res.status = "deleted"
     /\ reminders' = res.reminders
     /\ UNCHANGED <<taskVars, nextRid, remVars>>
     /\ UNCHANGED notRem

NextRem ==
  \/ Tick
  \/ \E u \in Users, t \in TaskIds, dt \in DateTimes : create_reminder(u, t, dt)
  \/ \E u \in Users, t \in TaskIds : create_reminder_not_found(u, t)
  \/ \E ok \in BOOLEAN : fire_past_due_reminder(ok)
  \/ fire_past_due_commit
  \/ \E ok \in BOOLEAN : create_schedule_job(ok)
  \/ create_store_job_name
  \/ \E u \in Users, r \in Rids, dt \in DateTimes : update_reminder(u, r, dt)
  \/ \E ok \in BOOLEAN : update_cancel_job(ok)
  \/ \E ok \in BOOLEAN : update_schedule_job(ok)
  \/ update_commit
  \/ \E u \in Users, r \in Rids : delete_reminder(u, r)
  \/ \E ok \in BOOLEAN : delete_cancel_job(ok)
  \/ delete_commit
  \/ \E r \in Rids : job_fire(job_name(r))
  \/ reminder_job_callback
  \/ \E ok \in BOOLEAN : callback_publish(ok)
  \/ callback_mark
  \/ \E u \in Users, t \in TaskIds, dt \in DateTimes :
       tool_schedule_reminder(u, t, dt)
  \/ \E u \in Users, r \in Rids : tool_cancel_reminder(u, r)

\* ---------------------------------------------------------------------------
\* Notification service: the subscriber of the reminders topic.  A delivery is
\* routed by topic; the component names of publisher and subscriber are taken
\* to be bound to one broker.
\* ---------------------------------------------------------------------------

\* notification-service config.py: the defaults of the Settings
notification_config ==
  [dapr_pubsub_name |-> "taskpubsub", reminders_topic |-> "reminders",
   task_updates_topic |-> "task-updates"]

\* notifier.py: the NotificationEvent send_reminder_notification publishes
NotificationEvent(event) ==
  [pubsub_name |-> notification_config.dapr_pubsub_name,
   topic |-> notification_config.task_updates_topic,
   event_type |-> "notification.sent", source |-> event.path,
   fields |-> {"event_type", "task_id", "user_id", "title", "message",
               "notification_type", "timestamp", "correlation_id"}]

\* consumer.py handle_reminder_event: one delivery from the subscribed topic;
\* ReminderEvent(**event) raises on a missing field and the handler answers
\* error; otherwise send_reminder_notification publishes once
handle_reminder_event(event, ok) ==
  /\ event \in published
  /\ event.topic = notification_config.reminders_topic
  /\ event.path \notin notif.handled
  /\ notif' =
       \* ReminderEvent(**event): the fields that have no default
       IF {"task_id", "user_id", "title", "due_at", "remind_at"}
            \subseteq event.fields
         THEN [handled |-> notif.handled \cup {event.path},
               status |-> IF ok THEN "success" ELSE "error",
               out |-> IF ok THEN notif.out \cup {NotificationEvent(event)}
                             ELSE notif.out,
               failed |-> ~ok]
         ELSE [notif EXCEPT !.handled = @ \cup {event.path},
                            !.status = "error", !.failed = TRUE]
  /\ UNCHANGED <<wsVars, chatVars, dbVars, remVars, lastTool, pipeVars,
                 toolPair, toolCall, stream, convo, auxVars>>

\* the reminder engine from create to callback, and the notifier behind it
NextNotif ==
  \/ Tick
  \/ \E u \in Users, t \in TaskIds, dt \in DateTimes : create_reminder(u, t, dt)
  \/ \E ok \in BOOLEAN : fire_past_due_reminder(ok)
  \/ fire_past_due_commit
  \/ \E ok \in BOOLEAN : create_schedule_job(ok)
  \/ create_store_job_name
  \/ \E r \in Rids : job_fire(job_name(r))
  \/ reminder_job_callback
  \/ \E ok \in BOOLEAN : callback_publish(ok)
  \/ callback_mark
  \/ \E e \in {past_due_event, callback_event}, ok \in BOOLEAN :
       handle_reminder_event(e, ok)

\* ---------------------------------------------------------------------------
\* REST task routes and the events they publish; the subscribers of the task
\* topics.  A delivery is routed by topic, as above.
\* ---------------------------------------------------------------------------

PUBSUB_NAME == "pubsub-kafka"

\* what comes of one publish: the sidecar answers 200 or 204, or anything else
\* happens (another status, no sidecar, a timeout, an exception)
SidecarOutcomes == {"accepted", "failed"}

TaskEventTypes == {"task.created", "task.updated", "task.completed",
                   "task.deleted"}

\* DaprClient.publish_event: True on 200 or 204, False on any other status,
\* on an unavailable sidecar and on any exception; nothing is raised
publish_event(pubsub_name, topic, data, outcome) ==
  [pubsub_name |-> pubsub_name, topic |-> topic, data |-> data,
   ok |-> outcome = "accepted"]

\* _extract_task_data: the task's state as the event carries it
extract_task_data(task) ==
  [completed |-> task.completed, due_date |-> task.due_date,
   recurring_pattern |-> task.recurrence_pattern]

\* schemas/events.py TaskEvent, dumped; correlation_id is fresh per event
TaskEvent(event_type, task_id, user_id, task_data) ==
  [event_type |-> event_type, task_id |-> task_id, user_id |-> user_id,
   task_data |-> task_data, correlation_id |-> nWrites + 1]

\* schemas/events.py TaskUpdateEvent, dumped, as _publish_task_update fills it
TaskUpdateEvent(task_id, user_id, action) ==
  [event_type |-> "task.sync", task_id |-> task_id, user_id |-> user_id,
   action |-> action, timestamp |-> nWrites + 1]

\* _publish_task_event: the publish calls it makes
publish_task_event(event_type, task_id, user_id, task, outcome) ==
  <<publish_event(PUBSUB_NAME, "task-events",
                  TaskEvent(event_type, task_id, user_id,
                            extract_task_data(task)), outcome)>>

\* A helper that reports every change as an update.
publish_task_update_as_updated(task_id, user_id, action, outcome) ==
  <<publish_event(PUBSUB_NAME, "task-updates",
                  TaskUpdateEvent(task_id, user_id, "updated"), outcome)>>

\* _publish_task_update: the publish calls it makes
publish_task_update(task_id, user_id, action, outcome) ==
  <<publish_event(PUBSUB_NAME, "task-updates",
                  TaskUpdateEvent(task_id, user_id, action), outcome)>>

\* A helper that fails the request when the sidecar did not accept the event.
aborts_request_on_failure(call) == ~call.ok

\* _publish_task_event and _publish_task_update: the result of publish_event
\* is dropped and an exception of the body is logged, so no publish call makes
\* the route fail
aborts_request(call) == FALSE

Subscribers == {"audit", "recurring", "websocket"}

\* the topic each service subscribes to (config.py of each service and the
\* subscribe decorators)
subscription(sub) ==
  CASE sub = "audit" -> [pubsub |-> "taskpubsub", topic |-> "task-events"]
    [] sub = "recurring" -> [pubsub |-> "taskpubsub", topic |-> "task-events"]
    [] sub = "websocket" -> [pubsub |-> "taskpubsub", topic |-> "task-updates"]

\* the broker hands every accepted event to each subscriber of its topic
deliver(box, calls) ==
  [sub \in Subscribers |->
     box[sub] \cup {calls[i].data :
                      i \in {j \in DOMAIN calls :
                               /\ calls[j].ok
                               /\ calls[j].topic = subscription(sub).topic}}]

\* the end of a route that found its task: the publish calls are made, the
\* response is sent
respond(op, code, task_id, calls) ==
  LET aborted == \E i \in DOMAIN calls : aborts_request(calls[i])
  IN /\ lastWrite' = [via |-> "rest", op |-> op, ok |-> ~aborted,
                      code |-> IF aborted THEN 500 ELSE code,
                      task_id |-> task_id, already_completed |-> FALSE,
                      calls |-> calls]
     /\ nWrites' = nWrites + 1
     /\ inbox' = deliver(inbox, calls)

\* raise NotFoundError: 404, nothing written, nothing published
not_found(op, task_id) ==
  /\ lastWrite' = [via |-> "rest", op |-> op, ok |-> FALSE, code |-> 404,
                   task_id |-> task_id, already_completed |-> FALSE,
                   calls |-> << >>]
  /\ UNCHANGED <<nWrites, inbox>>

\* POST /tasks: TaskService.create_task commits the row, then the two events
route_create_task(user_id, recurrence_pattern, due_date, o1, o2) ==
  /\ nextTid <= MaxTasks
  /\ nWrites < MaxWrites
  /\ LET task == Task(user_id, recurrence_pattern, due_date)
     IN /\ tasks' = Insert(tasks, nextTid, task)
        /\ nextTid' = nextTid + 1
        /\ respond("create", 201, nextTid,
                   publish_task_event("task.created", nextTid, user_id, task, o1)
                     \o publish_task_update(nextTid, user_id, "created", o2))
  /\ UNCHANGED <<tags, task_tags, nextTagId, reminders, nextRid>>
  /\ UNCHANGED <<wsVars, chatVars, remVars, lastTool, notif, audit, recurring,
                 ws_out, toolPair, toolCall, stream, convo, auxVars>>

\* PATCH /tasks/{id}: get_task_by_id, TaskService.update_task commits, then the
\* two events
route_update_task(user_id, task_id, completed, o1, o2) ==
  /\ nWrites < MaxWrites
  /\ IF task_owned(task_id, user_id)
       THEN LET updated_task == [tasks[task_id] EXCEPT !.completed = completed]
            IN /\ tasks' = [tasks EXCEPT ![task_id] = updated_task]
               /\ respond("update", 200, task_id,
                          publish_task_event("task.updated", task_id, user_id,
                                             updated_task, o1)
                            \o publish_task_update(task_id, user_id, "updated",
                                                   o2))
       ELSE /\ not_found("update", task_id)
            /\ UNCHANGED tasks
  /\ UNCHANGED <<tags, task_tags, nextTid, nextTagId, reminders, nextRid>>
  /\ UNCHANGED <<wsVars, chatVars, remVars, lastTool, notif, audit, recurring,
                 ws_out, toolPair, toolCall, stream, convo, auxVars>>

\* DELETE /tasks/{id}: get_task_by_id, the two events, then
\* TaskService.delete_task commits the deletion
route_delete_task(user_id, task_id, o1, o2) ==
  /\ nWrites < MaxWrites
  /\ IF task_owned(task_id, user_id)
       THEN LET calls == publish_task_event("task.deleted", task_id, user_id,
                                            tasks[task_id], o1)
                           \o publish_task_update(task_id, user_id, "deleted",
                                                  o2)
                aborted == \E i \in DOMAIN calls : aborts_request(calls[i])
                out == IF aborted THEN Out("error")
                                  ELSE cascade_task(Out("deleted"), task_id)
            IN /\ tasks' = out.tasks
               /\ task_tags' = out.task_tags
               /\ reminders' = out.reminders
               /\ respond("delete", 204, task_id, calls)
       ELSE /\ not_found("delete", task_id)
            /\ UNCHANGED <<tasks, task_tags, reminders>>
  /\ UNCHANGED <<tags, nextTid, nextTagId, nextRid>>
  /\ UNCHANGED <<wsVars, chatVars, remVars, lastTool, notif, audit, recurring,
                 ws_out, toolPair, toolCall, stream, convo, auxVars>>

\* PATCH /tasks/{id}/complete: get_task_by_id; a task that is completed
\* already is returned as it is; otherwise update_task(completed=True)
\* commits, then the two events
route_complete_task(user_id, task_id, o1, o2) ==
  /\ nWrites < MaxWrites
  /\ IF ~task_owned(task_id, user_id)
       THEN /\ not_found("complete", task_id)
            /\ UNCHANGED tasks
       ELSE IF tasks[task_id].completed
         THEN /\ lastWrite' = [via |-> "rest", op |-> "complete", ok |-> TRUE,
                               code |-> 200, task_id |-> task_id,
                               already_completed |-> TRUE, calls |-> << >>]
              /\ UNCHANGED <<tasks, nWrites, inbox>>
         ELSE LET updated_task == [tasks[task_id] EXCEPT !.completed = TRUE]
              IN /\ tasks' = [tasks EXCEPT ![task_id] = updated_task]
                 /\ respond("complete", 200, task_id,
                            publish_task_event("task.completed", task_id,
                                               user_id, updated_task, o1)
                              \o publish_task_update(task_id, user_id,
                                                     "completed", o2))
  /\ UNCHANGED <<tags, task_tags, nextTid, nextTagId, reminders, nextRid>>
  /\ UNCHANGED <<wsVars, chatVars, remVars, lastTool, notif, audit, recurring,
                 ws_out, toolPair, toolCall, stream, convo, auxVars>>

NextWrites ==
  \/ \E u \in Users, p \in {None, "daily"}, d \in {Null, 0},
        o1 \in SidecarOutcomes, o2 \in SidecarOutcomes :
       route_create_task(u, p, d, o1, o2)
  \/ \E u \in Users, t \in TaskIds, c \in BOOLEAN,
        o1 \in SidecarOutcomes, o2 \in SidecarOutcomes :
       route_update_task(u, t, c, o1, o2)
  \/ \E u \in Users, t \in TaskIds,
        o1 \in SidecarOutcomes, o2 \in SidecarOutcomes :
       route_delete_task(u, t, o1, o2)
  \/ \E u \in Users, t \in TaskIds,
        o1 \in SidecarOutcomes, o2 \in SidecarOutcomes :
       route_complete_task(u, t, o1, o2)

\* the end of a route whose session.commit() raised: the transaction is
\* rolled back when the session closes, the exception becomes a 500, and the
\* publish calls made before the commit stay made
commit_raised(op, task_id, calls) ==
  /\ lastWrite' = [via |-> "rest", op |-> op, ok |-> FALSE, code |-> 500,
                   task_id |-> task_id, already_completed |-> FALSE,
                   calls |-> calls]
  /\ nWrites' = nWrites + 1
  /\ inbox' = deliver(inbox, calls)

\* POST /tasks when the commit in TaskService.create_task raises: the route
\* never reaches its publish calls
route_create_task_commit_raises ==
  \E user_id \in Users :
    /\ nextTid <= MaxTasks
    /\ nWrites < MaxWrites
    /\ commit_raised("create", 0, << >>)
    /\ UNCHANGED dbVars
    /\ UNCHANGED <<wsVars, chatVars, remVars, lastTool, notif, audit, recurring,
                   ws_out, toolPair, toolCall, stream, convo, auxVars>>

\* DELETE /tasks/{id} when the commit in TaskService.delete_task raises: the
\* two events have been published before TaskService.delete_task is called
route_delete_task_commit_raises ==
  \E user_id \in Users, task_id \in TaskIds,
     o1 \in SidecarOutcomes, o2 \in SidecarOutcomes :
    /\ nWrites < MaxWrites
    /\ task_owned(task_id, user_id)
    /\ commit_raised("delete", task_id,
                     publish_task_event("task.deleted", task_id, user_id,
                                        tasks[task_id], o1)
                       \o publish_task_update(task_id, user_id, "deleted", o2))
    /\ UNCHANGED dbVars
    /\ UNCHANGED <<wsVars, chatVars, remVars, lastTool, notif, audit, recurring,
                   ws_out, toolPair, toolCall, stream, convo, auxVars>>

\* the task routes with a database whose commit may raise
NextCommit ==
  \/ NextWrites
  \/ route_create_task_commit_raises
  \/ route_delete_task_commit_raises

\* a task write of the tool server: the tables as the tool leaves them; the
\* tool functions make no publish call
tool_write(op, out, task_id) ==
  /\ nWrites < MaxWrites
  /\ tasks' = out.tasks
  /\ task_tags' = out.task_tags
  /\ reminders' = out.reminders
  /\ nextTid' = out.nextTid
  /\ lastWrite' = [via |-> "tool", op |-> op, ok |-> out.status # "error",
                   code |-> 0, task_id |-> task_id,
                   already_completed |-> FALSE, calls |-> << >>]
  /\ nWrites' = IF out.status = "error" THEN nWrites ELSE nWrites + 1
  /\ UNCHANGED <<tags, nextTagId, nextRid, inbox>>
  /\ UNCHANGED <<wsVars, chatVars, remVars, lastTool, notif, audit, recurring,
                 ws_out, toolPair, toolCall, stream, convo, auxVars>>

\* the add_task tool called in a chat
mcp_add_task(user_id) ==
  /\ nextTid <= MaxTasks
  /\ tool_write("create", add_task(user_id, {}, "medium", FALSE, None), nextTid)

\* the complete_task tool called in a chat
mcp_complete_task(user_id, task_id) ==
  tool_write("complete", complete_task(user_id, task_id), task_id)

\* the delete_task tool called in a chat
mcp_delete_task(user_id, task_id) ==
  tool_write("delete", delete_task(user_id, task_id), task_id)

\* dict.get(key, default) on an event payload
get(d, k, default) == IF k \in DOMAIN d THEN d[k] ELSE default

\* the dict {}
EmptyDict == [k \in {} |-> None]

\* AuditLogger.log_task_event: the row create_audit_log inserts
log_task_event(event_type, user_id, task_id) ==
  [user_id |-> user_id, action |-> event_type, resource_type |-> "task",
   resource_id |-> task_id, status |-> "success"]

\* audit-service handle_task_event: one delivery from task-events; the task
\* id is looked for under event["task"]["id"], and an event without
\* event_type, user_id or task id is dropped with a warning. The insert may
\* raise: the handler then tries to insert an error row, which may raise too,
\* and in every case returns None, a 200 with an empty body
audit_handle_task_event ==
  \E event \in inbox["audit"], db \in {"ok", "insert_raises", "down"} :
    /\ inbox' = [inbox EXCEPT !["audit"] = @ \ {event}]
    /\ LET event_type == get(event, "event_type", None)
           user_id == get(event, "user_id", None)
           task_data == get(event, "task", EmptyDict)
           task_id == get(task_data, "id", 0)
           dropped == \/ event_type = None
                      \/ user_id = None
                      \/ task_id = 0
                      \/ event_type \notin TaskEventTypes
       IN /\ dropped => db = "ok"
          /\ audit' =
               [events |-> Append(audit.events, event),
                rows |-> IF dropped \/ db = "down"
                           THEN audit.rows
                           ELSE Append(audit.rows,
                                  [log_task_event(event_type, user_id, task_id)
                                     EXCEPT !.status = IF db = "ok"
                                                         THEN "success"
                                                         ELSE "error"]),
                failed |-> db # "ok",
                reply |-> [http |-> 200, status |-> None]]
    /\ UNCHANGED <<lastWrite, nWrites, recurring, ws_out, notif>>
    /\ UNCHANGED <<wsVars, chatVars, dbVars, remVars, lastTool, toolPair, toolCall, stream, convo, auxVars>>

\* scheduler.py calculate_next_occurrence: the date one interval later
calculate_next_occurrence(current_date, pattern) ==
  current_date + (CASE pattern = "daily" -> 1
                    [] pattern = "weekly" -> 7
                    [] OTHER -> 30)

\* scheduler.py create_next_occurrence: the payload posted to the backend
create_next_occurrence(task_data, user_id) ==
  LET base_date == get(task_data, "due_date", Null)
  IN [user_id |-> user_id,
      recurring_pattern |-> task_data.recurring_pattern,
      due_date |-> calculate_next_occurrence(
                     IF base_date = Null THEN now ELSE base_date,
                     task_data.recurring_pattern)]

\* a filter that looks at the pattern only
skips_event_any_type(event_type, recurring_pattern) ==
  recurring_pattern = None \/ recurring_pattern = "none"

\* handle_task_event lines 66-81: the two early returns before
\* create_next_occurrence
skips_event(event_type, recurring_pattern) ==
  \/ event_type # "task.completed"
  \/ recurring_pattern = None
  \/ recurring_pattern = "none"

\* recurring-task-service handle_task_event: one delivery from task-events;
\* the pattern is looked for under event["task"]["recurring_pattern"]. The
\* post to the backend creates the task, or is answered with a status of 400
\* or more (create_next_occurrence returns the error body and the handler
\* goes on), or raises (the handler re-raises: a 500 to the sidecar)
recurring_handle_task_event ==
  \E event \in inbox["recurring"],
     post \in {"created", "backend_error", "raised"} :
    /\ inbox' = [inbox EXCEPT !["recurring"] = @ \ {event}]
    /\ LET event_type == get(event, "event_type", None)
           task_data == get(event, "task", EmptyDict)
           user_id == get(event, "user_id", None)
           recurring_pattern == get(task_data, "recurring_pattern", None)
           skipped == skips_event(event_type, recurring_pattern)
       IN /\ skipped => post = "created"
          /\ recurring' =
               [events |-> Append(recurring.events, event),
                calls |-> IF skipped THEN recurring.calls
                                     ELSE Append(recurring.calls, event),
                posts |-> IF skipped \/ post # "created"
                            THEN recurring.posts
                            ELSE Append(recurring.posts,
                                   create_next_occurrence(task_data, user_id)),
                failed |-> post # "created",
                reply |-> [http |-> IF post = "raised" THEN 500 ELSE 200,
                           status |-> None]]
    /\ UNCHANGED <<lastWrite, nWrites, audit, ws_out, notif>>
    /\ UNCHANGED <<wsVars, chatVars, dbVars, remVars, lastTool, toolPair, toolCall, stream, convo, auxVars>>

\* websocket-service handle_task_update: one delivery from task-updates; the
\* message carries event.get("task"), which has no key when the event has no
\* such field; broadcast_to_user is called with it and, no socket being
\* connected here, finds no connection; an exception on the way is caught and
\* answered with status error
handle_task_update ==
  \E event \in inbox["websocket"], raised \in BOOLEAN :
    /\ inbox' = [inbox EXCEPT !["websocket"] = @ \ {event}]
    /\ LET event_type == get(event, "event_type", None)
           user_id == get(event, "user_id", None)
       IN ws_out' =
            IF event_type = None \/ user_id = None \/ raised
              THEN [status |-> "error", failed |-> raised]
              ELSE [status |-> "success", failed |-> FALSE,
                    user_id |-> user_id, event |-> event,
                    message |-> [type |-> "task_update", event |-> event_type,
                                 task |-> get(event, "task", EmptyDict),
                                 timestamp |-> get(event, "timestamp", 0)]]
    /\ UNCHANGED <<lastWrite, nWrites, audit, recurring, notif>>
    /\ UNCHANGED <<wsVars, chatVars, dbVars, remVars, lastTool, toolPair, toolCall, stream, convo, auxVars>>

\* the task routes, the task tools and the three subscribers
NextEvents ==
  \/ NextWrites
  \/ \E u \in Users : mcp_add_task(u)
  \/ \E u \in Users, t \in TaskIds : mcp_complete_task(u, t)
  \/ \E u \in Users, t \in TaskIds : mcp_delete_task(u, t)
  \/ audit_handle_task_event
  \/ recurring_handle_task_event
  \/ handle_task_update

\* another publisher on the broker: an event of the format the three handlers
\* document, with the task under the key "task"; the task has a pattern, the
\* pattern "none", or no pattern at all
publish_documented_event ==
  \E event_type \in {"task.created", "task.completed"},
     recurring_pattern \in {None, "none", "daily"} :
    /\ nWrites < MaxWrites
    /\ nWrites' = nWrites + 1
    /\ LET event == [event_type |-> event_type, user_id |-> "uA",
                     task |-> IF recurring_pattern = None
                                THEN [id |-> 1, due_date |-> 0]
                                ELSE [id |-> 1, due_date |-> 0,
                                      recurring_pattern |-> recurring_pattern],
                     timestamp |-> nWrites + 1]
       IN inbox' = deliver(inbox,
                     <<publish_event("taskpubsub", "task-events", event,
                                     "accepted"),
                       publish_event("taskpubsub", "task-updates", event,
                                     "accepted")>>)
    /\ UNCHANGED <<lastWrite, audit, recurring, ws_out, notif>>
    /\ UNCHANGED <<wsVars, chatVars, dbVars, remVars, lastTool, toolPair, toolCall, stream, convo, auxVars>>

\* the three subscribers fed with events of the documented format
NextConsume ==
  \/ publish_documented_event
  \/ audit_handle_task_event
  \/ recurring_handle_task_event
  \/ handle_task_update

\* the materializer alone fed with events of the documented format
NextMaterializer ==
  \/ publish_documented_event
  \/ recurring_handle_task_event

\* ---------------------------------------------------------------------------
\* A chat turn in which the agent calls schedule_reminder and then, with the
\* reminder_id it got back, cancel_reminder; the REST create path runs beside
\* it and owns the jobs of the sidecar
\* ---------------------------------------------------------------------------

chat_schedule_then_cancel(user_id, task_id, remind_at) ==
  /\ nextRid <= MaxReminders
  /\ LET s == schedule_reminder(user_id, task_id, remind_at)
         c == IF s.status = "created"
                THEN cancel_reminder(s.reminders, user_id, nextRid)
                ELSE Out("none")
     IN /\ reminders' = c.reminders
        /\ nextRid' = s.nextRid
        /\ toolPair' = [scheduled |-> s.status, cancelled |-> c.status,
                        task_id |-> task_id, reminder_id |-> nextRid]
  /\ UNCHANGED <<taskVars, remVars>>
  /\ UNCHANGED <<wsVars, chatVars, lastTool, notif, pipeVars, toolCall, stream, convo, auxVars>>

NextPair ==
  \/ Tick
  \/ \E u \in Users, t \in TaskIds, dt \in DateTimes : create_reminder(u, t, dt)
  \/ \E ok \in BOOLEAN : fire_past_due_reminder(ok)
  \/ fire_past_due_commit
  \/ \E ok \in BOOLEAN : create_schedule_job(ok)
  \/ create_store_job_name
  \/ \E u \in Users, t \in TaskIds, dt \in DateTimes :
       chat_schedule_then_cancel(u, t, dt)

\* ---------------------------------------------------------------------------
\* The task tools that deal with recurrence, and the REST create beside them
\* ---------------------------------------------------------------------------

\* update_task: a priority or pattern that is truthy must be valid; every
\* argument that is not None is assigned, "" included
update_task(user_id, task_id, priority, is_recurring, recurrence_pattern) ==
  IF \/ priority \notin {None, "", "low", "medium", "high"}
     \/ recurrence_pattern \notin {None, ""} \cup VALID_PATTERNS
     \/ ~task_owned(task_id, user_id)
    THEN Out("error")
    ELSE [Out("updated") EXCEPT
            !.tasks[task_id].priority = IF priority # None THEN priority ELSE @,
            !.tasks[task_id].is_recurring =
               IF is_recurring # None THEN is_recurring = "True" ELSE @,
            !.tasks[task_id].recurrence_pattern =
               IF recurrence_pattern # None THEN recurrence_pattern ELSE @]

\* RecurringService.calculate_next_occurrence for a valid pattern: the date
\* plus the interval (every, default 1) times the pattern's unit, in days;
\* monthly and yearly use calendar arithmetic and are not drawn here
RecurringService_calculate_next_occurrence(current_date, pattern, recurrence_data) ==
  current_date + (IF recurrence_data = Null THEN 1 ELSE recurrence_data)
                   * (CASE pattern = "daily" -> 1 [] pattern = "weekly" -> 7)

\* skip_occurrence: calculate_next_occurrence is called without the task's
\* recurrence_data and raises on a pattern that is not valid
skip_occurrence(user_id, task_id) ==
  IF ~task_owned(task_id, user_id) THEN Out("error")
  ELSE IF ~tasks[task_id].is_recurring THEN Out("error")
  ELSE IF tasks[task_id].recurrence_pattern \notin VALID_PATTERNS
    THEN Out("raised")
  ELSE LET task == tasks[task_id]
           current_occurrence ==
             IF task.next_occurrence # Null THEN task.next_occurrence
             ELSE IF task.due_date # Null THEN task.due_date
             ELSE now
       IN [Out("skipped") EXCEPT
             !.tasks[task_id].next_occurrence =
                RecurringService_calculate_next_occurrence(
                  current_occurrence, task.recurrence_pattern, Null),
             !.tasks[task_id].completed = FALSE]

\* stop_recurrence: for a recurring task the body reaches
\* RecurringService.format_pattern_description, a name the module never binds
\* (it is imported inside skip_occurrence only), and raises NameError there
stop_recurrence(user_id, task_id) ==
  IF ~task_owned(task_id, user_id) THEN Out("error")
  ELSE IF ~tasks[task_id].is_recurring THEN Out("error")
  ELSE Out("raised")

\* one tool call of a chat: the result the tool returns, the tables as it
\* leaves them, the task row before and after
tool_invoke(name, url, out, task_id, invalid) ==
  LET res == tool(url, out)
  IN /\ nWrites < MaxWrites
     /\ nWrites' = nWrites + 1
     /\ tasks' = res.tasks
     /\ nextTid' = res.nextTid
     /\ toolCall' = [tool |-> name, status |-> res.status, invalid |-> invalid,
                     user_id |-> get_user_id_from_request(url),
                     task_id |-> task_id,
                     before |-> get(tasks, task_id, EmptyDict),
                     after |-> get(res.tasks, task_id, EmptyDict)]
     /\ UNCHANGED <<tags, nextTagId, task_tags, reminders, nextRid>>
     /\ UNCHANGED <<wsVars, chatVars, remVars, lastTool, notif, lastWrite,
                    inbox, audit, recurring, ws_out, toolPair, stream, convo, auxVars>>

invoke_add_task ==
  \E url \in SessionUrls, priority \in {"medium", "", "urgent"},
     is_recurring \in BOOLEAN, recurrence_pattern \in {None, "daily", "hourly"},
     db \in BOOLEAN :
    /\ nextTid <= MaxTasks
    /\ tool_invoke("add_task", url,
         IF db THEN add_task(get_user_id_from_request(url), {}, priority,
                             is_recurring, recurrence_pattern)
               ELSE Out("raised"),
         nextTid,
         \/ priority \notin {"low", "medium", "high"}
         \/ recurrence_pattern \notin {None} \cup VALID_PATTERNS)

invoke_update_task ==
  \E url \in SessionUrls, task_id \in TaskIds, priority \in {None, "", "urgent"},
     is_recurring \in {None, "True", "False"},
     recurrence_pattern \in {None, "daily", "hourly"} :
    tool_invoke("update_task", url,
      update_task(get_user_id_from_request(url), task_id, priority,
                  is_recurring, recurrence_pattern),
      task_id,
      \/ priority \notin {None, "low", "medium", "high"}
      \/ recurrence_pattern \notin {None} \cup VALID_PATTERNS)

invoke_skip_occurrence ==
  \E url \in SessionUrls, task_id \in TaskIds :
    tool_invoke("skip_occurrence", url,
      skip_occurrence(get_user_id_from_request(url), task_id), task_id, FALSE)

invoke_stop_recurrence ==
  \E url \in SessionUrls, task_id \in TaskIds :
    tool_invoke("stop_recurrence", url,
      stop_recurrence(get_user_id_from_request(url), task_id), task_id, FALSE)

\* REST POST /tasks with is_recurring true: TaskCreate requires a valid
\* pattern, TaskService.create_task computes next_occurrence from the due date
\* (or the clock) with the request's recurrence_data
create_recurring_task ==
  \E user_id \in Users, recurrence_pattern \in {"daily", "weekly"},
     due_date \in {Null, 0}, every \in {Null, 2} :
    /\ nextTid <= MaxTasks
    /\ nWrites < MaxWrites
    /\ nWrites' = nWrites + 1
    /\ tasks' = Insert(tasks, nextTid,
                  [Task(user_id, recurrence_pattern, due_date) EXCEPT
                     !.is_recurring = TRUE,
                     !.recurrence_data = every,
                     !.next_occurrence =
                        RecurringService_calculate_next_occurrence(
                          IF due_date # Null THEN due_date ELSE now,
                          recurrence_pattern, every)])
    /\ nextTid' = nextTid + 1
    /\ UNCHANGED <<tags, nextTagId, task_tags, reminders, nextRid>>
    /\ UNCHANGED <<wsVars, chatVars, remVars, lastTool, notif, lastWrite,
                   inbox, audit, recurring, ws_out, toolPair, toolCall, stream, convo, auxVars>>

NextRecur ==
  \/ invoke_add_task
  \/ invoke_update_task
  \/ invoke_skip_occurrence
  \/ invoke_stop_recurrence
  \/ create_recurring_task

(***************************************************************************)
(* Chat dispatcher: the error classification and the events of one stream  *)
(***************************************************************************)
\* A Python str is the sequence of its characters.
Upper == <<"A", "B", "C", "D", "E", "F", "G", "H", "I", "J", "K", "L", "M", "N", "O", "P", "Q", "R", "S", "T", "U", "V", "W", "X", "Y", "Z">>
Lower == <<"a", "b", "c", "d", "e", "f", "g", "h", "i", "j", "k", "l", "m", "n", "o", "p", "q", "r", "s", "t", "u", "v", "w", "x", "y", "z">>

\* str.lower()
lower(s) ==
  [i \in 1..Len(s) |->
     IF \E k \in 1..Len(Upper) : Upper[k] = s[i]
       THEN Lower[CHOOSE k \in 1..Len(Upper) : Upper[k] = s[i]]
       ELSE s[i]]

\* Python's `t in s` for two strings
contains(s, t) == \E i \in 0..(Len(s) - Len(t)) : SubSeq(s, i + 1, i + Len(t)) = t

\* agents/errors.py: an AgentError is its code and its user_message.
AgentError(code, user_message) == [code |-> code, user_message |-> user_message]

RateLimitError ==
  AgentError("rate_limit",
             "I'm getting a lot of requests right now. Please wait a moment and try again.")
UnknownError ==
  AgentError("unknown_error", "Something went wrong on my end. Please try again.")

\* the same classification with the authentication indicators looked at
\* before the rate-limit indicators
classify_exception_auth_first(exc) ==
  LET exc_str == lower(exc.msg)
      any(indicators, s) == \E t \in indicators : contains(s, t)
  IN  IF any({<<"a", "u", "t", "h">>,
                 <<"u", "n", "a", "u", "t", "h", "o", "r", "i", "z", "e", "d">>,
                 <<"f", "o", "r", "b", "i", "d", "d", "e", "n">>,
                 <<"4", "0", "1">>,
                 <<"4", "0", "3">>,
                 <<"a", "p", "i", " ", "k", "e", "y">>,
                 <<"a", "p", "i", "k", "e", "y">>,
                 <<"i", "n", "v", "a", "l", "i", "d", " ", "k", "e", "y">>}, exc_str)
        THEN AgentError("auth_error", "authentication")
      ELSE IF any({<<"r", "a", "t", "e", " ", "l", "i", "m", "i", "t">>,
                 <<"r", "a", "t", "e", "_", "l", "i", "m", "i", "t">>,
                 <<"r", "a", "t", "e", "l", "i", "m", "i", "t">>,
                 <<"q", "u", "o", "t", "a">>,
                 <<"4", "2", "9">>,
                 <<"t", "o", "o", " ", "m", "a", "n", "y", " ", "r", "e", "q", "u", "e", "s", "t", "s">>}, exc_str)
        THEN RateLimitError
      ELSE UnknownError

\* agents/errors.py classify_exception: the indicator lists are looked for in
\* the lowercased message (and the lowercased type name) in the code's order.
classify_exception(exc) ==
  LET exc_str == lower(exc.msg)
      exc_type == lower(exc.type)
      any(indicators, s) == \E t \in indicators : contains(s, t)
  IN  IF any({<<"r", "a", "t", "e", " ", "l", "i", "m", "i", "t">>,
                 <<"r", "a", "t", "e", "_", "l", "i", "m", "i", "t">>,
                 <<"r", "a", "t", "e", "l", "i", "m", "i", "t">>,
                 <<"q", "u", "o", "t", "a">>,
                 <<"4", "2", "9">>,
                 <<"t", "o", "o", " ", "m", "a", "n", "y", " ", "r", "e", "q", "u", "e", "s", "t", "s">>}, exc_str)
        THEN RateLimitError
      ELSE IF any({<<"a", "u", "t", "h">>,
                 <<"u", "n", "a", "u", "t", "h", "o", "r", "i", "z", "e", "d">>,
                 <<"f", "o", "r", "b", "i", "d", "d", "e", "n">>,
                 <<"4", "0", "1">>,
                 <<"4", "0", "3">>,
                 <<"a", "p", "i", " ", "k", "e", "y">>,
                 <<"a", "p", "i", "k", "e", "y">>,
                 <<"i", "n", "v", "a", "l", "i", "d", " ", "k", "e", "y">>}, exc_str)
        THEN AgentError("auth_error", "authentication")
      ELSE IF \/ any({<<"c", "o", "n", "n", "e", "c", "t", "i", "o", "n">>,
                     <<"t", "i", "m", "e", "o", "u", "t">>,
                     <<"c", "o", "n", "n", "e", "c", "t">>,
                     <<"n", "e", "t", "w", "o", "r", "k">>,
                     <<"u", "n", "r", "e", "a", "c", "h", "a", "b", "l", "e">>,
                     <<"d", "n", "s">>}, exc_str)
              \/ any({<<"c", "o", "n", "n", "e", "c", "t", "i", "o", "n">>,
                     <<"t", "i", "m", "e", "o", "u", "t">>,
                     <<"n", "e", "t", "w", "o", "r", "k">>}, exc_type)
        THEN IF contains(exc_str, <<"t", "i", "m", "e", "o", "u", "t">>) \/ contains(exc_type, <<"t", "i", "m", "e", "o", "u", "t">>)
               THEN AgentError("timeout", "timeout")
               ELSE AgentError("connection_error", "connection")
      ELSE IF \/ any({<<"t", "i", "m", "e", "o", "u", "t">>,
                     <<"t", "i", "m", "e", "d", " ", "o", "u", "t">>,
                     <<"d", "e", "a", "d", "l", "i", "n", "e">>,
                     <<"e", "x", "c", "e", "e", "d", "e", "d">>}, exc_str)
              \/ any({<<"t", "i", "m", "e", "o", "u", "t">>,
                     <<"a", "s", "y", "n", "c", "i", "o", ".", "t", "i", "m", "e", "o", "u", "t">>}, exc_type)
        THEN AgentError("timeout", "timeout")
      ELSE IF any({<<"m", "o", "d", "e", "l">>,
                 <<"s", "e", "r", "v", "i", "c", "e", " ", "u", "n", "a", "v", "a", "i", "l", "a", "b", "l", "e">>,
                 <<"5", "0", "3">>,
                 <<"5", "0", "0">>,
                 <<"o", "v", "e", "r", "l", "o", "a", "d", "e", "d">>}, exc_str)
        THEN AgentError("model_unavailable",
                        "I'm temporarily unavailable. Please try again in a moment.")
      ELSE UnknownError

TooManyRequests == <<"4", "2", "9", " ", "T", "o", "o", " ", "M", "a", "n", "y", " ", "R", "e", "q", "u", "e", "s", "t", "s">>

\* The exception the agent SDK raises when the arguments of a tool call are
\* not a JSON object (two argument blobs concatenated).
MalformedToolArguments ==
  [type |-> <<"M", "o", "d", "e", "l", "B", "e", "h", "a", "v", "i", "o", "r", "E", "r", "r", "o", "r">>,
   msg |-> <<"I", "n", "v", "a", "l", "i", "d", " ", "J", "S", "O", "N", " ", "i", "n", "p", "u", "t", " ", "f", "o", "r", " ", "t", "o", "o", "l", " ", "a", "d", "d", "_", "t", "a", "s", "k">>]

\* Exceptions raised inside run_agent_streamed's try block by the model
\* client, the agent SDK or the tool-server session: a type name and a
\* message.  None of them is an AgentError: nothing in the try block raises
\* one, so `except AgentError` (lines 495-502) is never entered.
ModelExceptions ==
  {MalformedToolArguments} \cup
  [type : {<<"A", "P", "I", "S", "t", "a", "t", "u", "s", "E", "r", "r", "o", "r">>,
           <<"A", "P", "I", "T", "i", "m", "e", "o", "u", "t", "E", "r", "r", "o", "r">>},
   msg : {<<"4", "2", "9", " ", "T", "o", "o", " ", "M", "a", "n", "y", " ", "R", "e", "q", "u", "e", "s", "t", "s">>,
          <<"4", "0", "1", " ", "U", "n", "a", "u", "t", "h", "o", "r", "i", "z", "e", "d", ":", " ", "4", "2", "9", " ", "T", "o", "o", " ", "M", "a", "n", "y", " ", "R", "e", "q", "u", "e", "s", "t", "s">>,
          <<"C", "o", "n", "n", "e", "c", "t", "i", "o", "n", " ", "t", "i", "m", "e", "o", "u", "t", " ", "a", "f", "t", "e", "r", " ", "4", "2", "9", " ", "T", "o", "o", " ", "M", "a", "n", "y", " ", "R", "e", "q", "u", "e", "s", "t", "s">>,
          <<"4", "2", "9", " ", "T", "o", "o", " ", "M", "a", "n", "y", " ", "R", "e", "q", "u", "e", "s", "t", "s", ":", " ", "m", "o", "d", "e", "l", " ", "o", "v", "e", "r", "l", "o", "a", "d", "e", "d">>,
          <<"4", "0", "3", " ", "F", "o", "r", "b", "i", "d", "d", "e", "n">>,
          <<"R", "e", "q", "u", "e", "s", "t", " ", "t", "i", "m", "e", "d", " ", "o", "u", "t">>,
          <<"5", "0", "3", " ", "S", "e", "r", "v", "i", "c", "e", " ", "U", "n", "a", "v", "a", "i", "l", "a", "b", "l", "e">>,
          <<"b", "o", "o", "m">>}]

\* runner.py StreamEvent
StreamEvent(type, content, code) == [type |-> type, content |-> content, code |-> code]

\* run_agent_streamed lines 351-471: the StreamEvent yielded for a chunk that
\* carries text; the summary of a reasoning item is the event's content.
runner_yield(ev) ==
  StreamEvent(runner_event_type(ev),
              IF ev = "reasoning_item" THEN "reasoning_text" ELSE "content", None)

\* run_agent_streamed lines 503-511: a raw exception is classified and
\* yielded as an error event with the classification's message and code.
runner_error_event(exc) ==
  LET classified == classify_exception(exc)
  IN  StreamEvent("error", classified.user_message, classified.code)

\* send_message_stream.generate lines 226-272 with utils/sse.py: the SSE
\* events written for one StreamEvent; an error event carries the runner's
\* message and code.
generate_relay(event) ==
  [i \in 1..Len(chat_sse(event.type)) |->
     [event |-> chat_sse(event.type)[i], content |-> event.content,
      code |-> event.code]]

\* no exception was raised
NoException == [type |-> << >>, msg |-> << >>]

NoStream == [pc |-> "idle", exc |-> NoException, runs |-> 0, yielded |-> << >>,
             out |-> << >>, session |-> "none"]

\* a context manager whose exit leaves the session as it is
session_exit_leaves_open(session) == session

\* run_agent_streamed lines 291-296: leaving the `async with
\* MCPServerStreamableHttp(...)` block, by its end, by an exception or by
\* the generator being closed at a yield, closes the session it opened.
session_exit(session) == IF session = "open" THEN "closed" ELSE session

\* send_message_stream.generate lines 197-213 and run_agent_streamed lines
\* 288-320: the request starts, the runner yields thinking and calls
\* Runner.run_streamed.
stream_start ==
  /\ stream.pc = "idle"
  /\ LET e == StreamEvent("thinking", "Processing your request...", None)
     IN  stream' = [stream EXCEPT !.pc = "stream", !.runs = 1, !.session = "open",
                                  !.yielded = <<e>>, !.out = generate_relay(e)]
  /\ UNCHANGED <<wsVars, chatVars, dbVars, remVars, lastTool, notif, pipeVars,
                 toolPair, toolCall, convo, auxVars>>

\* run_agent_streamed lines 345-471: one chunk of result.stream_events().
stream_chunk ==
  /\ stream.pc = "stream"
  /\ Len(stream.yielded) <= MaxStreamEvents
  /\ \E ev \in SdkEvents :
       LET e == runner_yield(ev)
       IN  stream' = [stream EXCEPT !.yielded = Append(@, e),
                                    !.out = @ \o generate_relay(e)]
  /\ UNCHANGED <<wsVars, chatVars, dbVars, remVars, lastTool, notif, pipeVars,
                 toolPair, toolCall, convo, auxVars>>

\* run_agent_streamed lines 503-511: the model client, the SDK or a tool
\* raises; the error event is yielded and the generator ends.  The run is
\* not started again.
stream_raise ==
  /\ stream.pc = "stream"
  /\ \E exc \in ModelExceptions :
       LET e == runner_error_event(exc)
       IN  stream' = [stream EXCEPT !.pc = "persist", !.exc = exc,
                                    !.session = session_exit(@),
                                    !.yielded = Append(@, e),
                                    !.out = @ \o generate_relay(e)]
  /\ UNCHANGED <<wsVars, chatVars, dbVars, remVars, lastTool, notif, pipeVars,
                 toolPair, toolCall, convo, auxVars>>

\* run_agent_streamed lines 473-493: the stream is exhausted and done is
\* yielded, for which generate writes nothing (lines 262-264).
stream_exhausted ==
  /\ stream.pc = "stream"
  /\ LET e == StreamEvent("done", "content", None)
     IN  stream' = [stream EXCEPT !.pc = "persist", !.session = session_exit(@),
                                  !.yielded = Append(@, e),
                                  !.out = @ \o generate_relay(e)]
  /\ UNCHANGED <<wsVars, chatVars, dbVars, remVars, lastTool, notif, pipeVars,
                 toolPair, toolCall, convo, auxVars>>

\* send_message_stream.generate lines 274-286 and 312-319: the assistant
\* message is stored and done is written; an exception of the store is
\* classified and written as an error event.
stream_persist ==
  /\ stream.pc = "persist"
  /\ \E ok \in BOOLEAN :
       LET failure == classify_exception([type |-> <<"O", "p", "e", "r", "a", "t", "i", "o", "n", "a", "l", "E", "r", "r", "o", "r">>,
                                          msg |-> <<"s", "e", "r", "v", "e", "r", " ", "c", "l", "o", "s", "e", "d", " ", "t", "h", "e", " ", "c", "o", "n", "n", "e", "c", "t", "i", "o", "n">>])
           last == IF ok THEN [event |-> "done", content |-> "", code |-> None]
                         ELSE [event |-> "error", content |-> failure.user_message,
                               code |-> failure.code]
       IN  stream' = [stream EXCEPT !.pc = "end", !.out = Append(@, last)]
  /\ UNCHANGED <<wsVars, chatVars, dbVars, remVars, lastTool, notif, pipeVars,
                 toolPair, toolCall, convo, auxVars>>

\* run_agent_streamed lines 288-296 and 503-511: the tool server cannot be
\* reached; entering the `async with` raises before a session exists, and
\* the exception is classified and yielded as an error event.
stream_connect_fails ==
  /\ stream.pc = "idle"
  /\ LET e == runner_error_event([type |-> <<"C", "o", "n", "n", "e", "c", "t", "E", "r", "r", "o", "r">>,
                                  msg |-> <<"A", "l", "l", " ", "c", "o", "n", "n", "e", "c", "t", "i", "o", "n", " ", "a", "t", "t", "e", "m", "p", "t", "s", " ", "f", "a", "i", "l", "e", "d">>])
     IN  stream' = [stream EXCEPT !.pc = "persist", !.yielded = <<e>>,
                                  !.out = generate_relay(e)]
  /\ UNCHANGED <<wsVars, chatVars, dbVars, remVars, lastTool, notif, pipeVars,
                 toolPair, toolCall, convo, auxVars>>

\* The client disconnects: the response task is cancelled and the
\* generators are closed where they are suspended; the runner's is inside
\* the `async with` block while the model streams and past it afterwards.
stream_cancel ==
  /\ stream.pc \in {"stream", "persist"}
  /\ stream' = [stream EXCEPT !.pc = "cancelled", !.session = session_exit(@)]
  /\ UNCHANGED <<wsVars, chatVars, dbVars, remVars, lastTool, notif, pipeVars,
                 toolPair, toolCall, convo, auxVars>>

NextStream ==
  \/ stream_start
  \/ stream_connect_fails
  \/ stream_cancel
  \/ stream_chunk
  \/ stream_raise
  \/ stream_exhausted
  \/ stream_persist


(***************************************************************************)
(* Chat dispatcher: conversations and messages                             *)
(***************************************************************************)
\* Two clients send chat requests at the same time, each its next request
\* when its last one ended; the requests are numbered as they start.
ChatClients == {1, 2}
ConversationIds == 1..MaxChats

\* the same lookup without the owner in the WHERE clause
get_conversation_any_owner(conversations, conversation_id, user_id) ==
  {c \in conversations : c.id = conversation_id}

\* ConversationService.get_conversation lines 53-71: the rows with the id
\* and the owner (at most one: id is the primary key).
get_conversation(conversations, conversation_id, user_id) ==
  {c \in conversations : c.id = conversation_id /\ c.user_id = user_id}

\* ConversationService.get_or_create lines 73-91 with create_conversation
\* lines 35-51: the user's conversation of that id, else a new conversation
\* of the user.  Null is the request without conversation_id.
get_or_create(db, user_id, conversation_id) ==
  LET found == IF conversation_id # Null /\ conversation_id # 0
                 THEN get_conversation(db.conversations, conversation_id, user_id)
                 ELSE {}
      created == [id |-> db.nextCid, user_id |-> user_id]
  IN  IF found # {}
        THEN [conversations |-> db.conversations, nextCid |-> db.nextCid,
              conversation |-> CHOOSE c \in found : TRUE]
        ELSE [conversations |-> db.conversations \cup {created},
              nextCid |-> db.nextCid + 1, conversation |-> created]

\* ConversationService.get_messages_for_agent lines 262-283: the ids of the
\* conversation's messages.
get_messages_for_agent(messages, conversation_id) ==
  {m.id : m \in {x \in messages : x.conversation_id = conversation_id}}

IdleRequest == [pc |-> "idle", n |-> 0, user_id |-> NoUser, asked |-> Null,
                conversation |-> Null, history |-> {}, created_at |-> Null]

NoConvo == [conversations |-> {}, nextCid |-> 1, messages |-> {}, nextMid |-> 1,
            clock |-> 0, nReq |-> 0, req |-> [r \in ChatClients |-> IdleRequest]]

notConvo == <<wsVars, chatVars, dbVars, remVars, lastTool, notif, pipeVars,
              toolPair, toolCall, stream, auxVars>>

\* send_message_stream.generate lines 199-203: the request of an
\* authenticated user looks its conversation up or creates one.
generate_get_or_create ==
  /\ \E r \in ChatClients, user_id \in Users, conversation_id \in {Null} \cup ConversationIds :
       /\ convo.req[r].pc \in {"idle", "end"}
       /\ \A x \in ChatClients : x < r => convo.req[x].pc # "idle"
       /\ convo.nReq < MaxChats
       /\ LET g == get_or_create(convo, user_id, conversation_id)
          IN  convo' = [convo EXCEPT
                          !.conversations = g.conversations,
                          !.nextCid = g.nextCid,
                          !.nReq = @ + 1,
                          !.req[r] = [IdleRequest EXCEPT
                                        !.pc = "history", !.n = convo.nReq + 1,
                                        !.user_id = user_id,
                                        !.asked = conversation_id,
                                        !.conversation = g.conversation.id]]
  /\ UNCHANGED notConvo

\* send_message_stream.generate line 206: the history of the conversation
\* the lookup returned is read for the agent.
generate_get_history ==
  /\ \E r \in ChatClients :
       /\ convo.req[r].pc = "history"
       /\ convo' = [convo EXCEPT
                      !.req[r].pc = "user_new",
                      !.req[r].history = get_messages_for_agent(
                                           convo.messages, convo.req[r].conversation)]
  /\ UNCHANGED notConvo

\* ConversationService.add_message lines 208-214: the Message object is
\* built; created_at is the default_factory's utcnow() (models/message.py
\* line 67) and the id is not assigned yet.  Each reading of the clock is
\* later than the one before.
add_message_construct ==
  /\ \E r \in ChatClients :
       /\ convo.req[r].pc \in {"user_new", "assistant_new"}
       /\ convo' = [convo EXCEPT
                      !.req[r].pc = IF @ = "user_new" THEN "user_commit"
                                                      ELSE "assistant_commit",
                      !.req[r].created_at = convo.clock,
                      !.clock = @ + 1]
  /\ UNCHANGED notConvo

\* ConversationService.add_message lines 225-227: the commit flushes the
\* INSERT; the database assigns the next id of the sequence.  After the user
\* message the agent runs (generate lines 221-272) and the assistant message
\* is added the same way (lines 274-280).
add_message_commit ==
  /\ \E r \in ChatClients :
       LET q == convo.req[r]
       IN  /\ q.pc \in {"user_commit", "assistant_commit"}
           /\ convo' = [convo EXCEPT
                          !.messages = @ \cup
                             {[id |-> convo.nextMid, conversation_id |-> q.conversation,
                               role |-> IF q.pc = "user_commit" THEN "user" ELSE "assistant",
                               created_at |-> q.created_at, req |-> q.n]},
                          !.nextMid = @ + 1,
                          !.req[r].pc = IF q.pc = "user_commit"
                                          THEN "assistant_new" ELSE "end"]
  /\ UNCHANGED notConvo

NextConvo ==
  \/ generate_get_or_create
  \/ generate_get_history
  \/ add_message_construct
  \/ add_message_commit


(***************************************************************************)
(* Token verification: the JWKS cache (middleware/jwt_auth.py)             *)
(***************************************************************************)
jwks_cache_ttl == 300

\* two requests verify tokens at the same time, each its next token when
\* the last fetch_jwks returned
JwksCallers == {1, 2}

IdleFetch == [pc |-> "idle", current_time |-> 0, cache_at_call |-> Null,
              cache_time_at_call |-> 0, contacted |-> FALSE, failed |-> FALSE,
              cache_at_failure |-> Null, result |-> Null]

\* the module globals _jwks_cache (Null is None, else the number of the key
\* set as the provider served it) and _jwks_cache_time, the clock
\* time.time(), and the key sets the provider has served
NoJwks == [cache |-> Null, cache_time |-> 0, clock |-> 0, ticks |-> 0, served |-> 0,
           calls |-> 0, call |-> [c \in JwksCallers |-> IdleFetch]]

Raised == -2

notJwks == <<wsVars, chatVars, dbVars, remVars, lastTool, notif, pipeVars,
             toolPair, toolCall, stream, convo, calc, hooks>>

\* a cache that is served for ever once it is filled
cache_is_valid_without_ttl(cache, cache_time, current_time) == cache # Null

\* fetch_jwks line 42: `_jwks_cache and (current_time - _jwks_cache_time) <
\* _jwks_cache_ttl`; a key set {"keys": [...]} is a non-empty dict.
cache_is_valid(cache, cache_time, current_time) ==
  cache # Null /\ (current_time - cache_time) < jwks_cache_ttl

\* time passes: a second, a second less than the TTL, or the TTL
jwks_tick ==
  /\ jwks.ticks < MaxTicks
  /\ \E delta \in {1, jwks_cache_ttl - 1, jwks_cache_ttl} :
       jwks' = [jwks EXCEPT !.clock = @ + delta, !.ticks = @ + 1]
  /\ UNCHANGED notJwks

\* fetch_jwks lines 38-47: the clock is read; a valid cache is returned at
\* once, else the request to the provider is sent.
fetch_jwks_call ==
  /\ jwks.calls < MaxFetches
  /\ \E c \in JwksCallers :
       /\ jwks.call[c].pc \in {"idle", "returned"}
       /\ \A x \in JwksCallers : x < c => jwks.call[x].pc # "idle"
       /\ LET valid == cache_is_valid(jwks.cache, jwks.cache_time, jwks.clock)
          IN  jwks' = [jwks EXCEPT
                         !.calls = @ + 1,
                         !.call[c] = [IdleFetch EXCEPT
                                        !.pc = IF valid THEN "returned" ELSE "fetching",
                                        !.current_time = jwks.clock,
                                        !.cache_at_call = jwks.cache,
                                        !.cache_time_at_call = jwks.cache_time,
                                        !.contacted = ~valid,
                                        !.result = IF valid THEN jwks.cache ELSE Null]]
  /\ UNCHANGED notJwks

\* fetch_jwks lines 49-60: the provider answers with its key set; it is
\* cached with the time read at the start of the call and returned.
fetch_jwks_response ==
  /\ \E c \in JwksCallers :
       /\ jwks.call[c].pc = "fetching"
       /\ jwks' = [jwks EXCEPT
                     !.served = @ + 1,
                     !.cache = jwks.served + 1,
                     !.cache_time = jwks.call[c].current_time,
                     !.call[c].pc = "returned",
                     !.call[c].result = jwks.served + 1]
  /\ UNCHANGED notJwks

\* fetch_jwks lines 61-67: the request fails (no connection, timeout, error
\* status, no JSON); the cache, if any, is returned whatever its age, else
\* the exception is raised again.
fetch_jwks_failure ==
  /\ \E c \in JwksCallers :
       /\ jwks.call[c].pc = "fetching"
       /\ jwks' = [jwks EXCEPT
                     !.call[c].pc = "returned",
                     !.call[c].failed = TRUE,
                     !.call[c].cache_at_failure = jwks.cache,
                     !.call[c].result = IF jwks.cache # Null THEN jwks.cache ELSE Raised]
  /\ UNCHANGED notJwks

NextJwks ==
  \/ jwks_tick
  \/ fetch_jwks_call
  \/ fetch_jwks_response
  \/ fetch_jwks_failure

(***************************************************************************)
(* Datetimes on the ingestion paths                                        *)
(***************************************************************************)
\* A datetime is a wall-clock hour and, when it is aware, its UTC offset in
\* hours; the instant it denotes is wall - off in UTC.
WallHours == 0..MaxHour
UtcOffsets == {-1, 0, 1}

\* what pydantic hands to the REST services for an ISO string of the body
RestDateTimes ==
  {[wall |-> w, aware |-> FALSE, off |-> 0] : w \in WallHours} \cup
  {[wall |-> w, aware |-> TRUE, off |-> o] : w \in WallHours, o \in UtcOffsets}

\* the ISO strings a tool is called with: the wall-clock part and what follows
IsoStrings == [wall : WallHours, suffix : {"", "Z", "+00:00", "+01:00", "-01:00"}]

\* datetime.fromisoformat(s.replace("Z", "+00:00"))
fromisoformat(s) ==
  LET suffix == IF s.suffix = "Z" THEN "+00:00" ELSE s.suffix
  IN  [wall |-> s.wall, aware |-> suffix # "",
       off |-> CASE suffix = "+01:00" -> 1 [] suffix = "-01:00" -> -1 [] OTHER -> 0]

\* TaskService.create_task lines 233-237 and update_task lines 367-370:
\* `due_date.astimezone(timezone.utc).replace(tzinfo=None)` for an aware
\* value, the value itself for a naive one.
TaskService_normalize(due_date) ==
  IF due_date.aware THEN due_date.wall - due_date.off ELSE due_date.wall

\* server.py add_task lines 153-155, update_task lines 465-466,
\* schedule_reminder lines 799-801: the parsed value's tzinfo is replaced by
\* None.
tool_parse(iso) == fromisoformat(iso).wall

notCalc == <<wsVars, chatVars, dbVars, remVars, lastTool, notif, pipeVars,
             toolPair, toolCall, stream, convo, jwks, hooks>>

\* POST /tasks and PATCH /tasks/{id} with a due_date
rest_task_due_date ==
  /\ calc.fn = "none"
  /\ \E path \in {"create_task", "update_task"}, due_date \in RestDateTimes :
       calc' = [fn |-> path, via |-> "rest", aware |-> due_date.aware,
                instant |-> due_date.wall - due_date.off,
                stored |-> TaskService_normalize(due_date)]
  /\ UNCHANGED notCalc

\* POST /reminders and PATCH /reminders/{id}
rest_reminder_remind_at ==
  /\ calc.fn = "none"
  /\ \E path \in {"create_reminder", "update_reminder"}, remind_at \in RestDateTimes :
       calc' = [fn |-> path, via |-> "rest", aware |-> remind_at.aware,
                instant |-> remind_at.wall - remind_at.off,
                stored |-> remind_at_naive(remind_at)]
  /\ UNCHANGED notCalc

\* the tools add_task and update_task with a due_date, schedule_reminder with
\* a remind_at
tool_datetime ==
  /\ calc.fn = "none"
  /\ \E path \in {"add_task", "update_task", "schedule_reminder"}, iso \in IsoStrings :
       LET parsed == fromisoformat(iso)
       IN  calc' = [fn |-> path, via |-> "tool", aware |-> parsed.aware,
                    instant |-> parsed.wall - parsed.off,
                    stored |-> tool_parse(iso)]
  /\ UNCHANGED notCalc

NextDates ==
  \/ rest_task_due_date
  \/ rest_reminder_remind_at
  \/ tool_datetime

(***************************************************************************)
(* The monthly next occurrence (dateutil's relativedelta)                  *)
(***************************************************************************)
\* calendar.monthrange(year, month)[1]
days_in_month(year, month) ==
  IF month = 2
    THEN (IF year % 4 = 0 /\ (year % 100 # 0 \/ year % 400 = 0) THEN 29 ELSE 28)
    ELSE IF month \in {4, 6, 9, 11} THEN 30 ELSE 31

\* the dates of the calendar years drawn: 2023, the leap year 2024, ...
Dates ==
  {dt \in [year : 2023..(2023 + MaxYears), month : 1..12, day : 1..31] :
     dt.day <= days_in_month(dt.year, dt.month)}

\* an addition of months that keeps the day and lets it run over into the
\* month after
add_months_overflowing(dt, months) ==
  LET month0 == dt.month + months
      year == dt.year + (month0 - 1) \div 12
      month == ((month0 - 1) % 12) + 1
      over == dt.day > days_in_month(year, month)
  IN  IF over
        THEN [year |-> IF month = 12 THEN year + 1 ELSE year,
              month |-> (month % 12) + 1,
              day |-> dt.day - days_in_month(year, month)]
        ELSE [year |-> year, month |-> month, day |-> dt.day]

\* dt + relativedelta(months=n): the month is advanced with carry into the
\* year, and the day is min(day, days of the new month).  The time of day is
\* kept and is not drawn.
relativedelta_months(dt, months) ==
  LET month0 == dt.month + months
      year == dt.year + (month0 - 1) \div 12
      month == ((month0 - 1) % 12) + 1
      last == days_in_month(year, month)
  IN  [year |-> year, month |-> month, day |-> IF dt.day < last THEN dt.day ELSE last]

\* recurring-task-service scheduler.py calculate_next_occurrence lines
\* 59-63 for "monthly": PATTERN_MAP gives months=1.
scheduler_monthly ==
  /\ calc.fn = "none"
  /\ \E current_date \in Dates :
       calc' = [fn |-> "scheduler", current_date |-> current_date, every |-> 1,
                next_date |-> relativedelta_months(current_date, 1)]
  /\ UNCHANGED notCalc

\* backend RecurringService.calculate_next_occurrence lines 66-82 for
\* "monthly": the interval is recurrence_data["every"], 1 without it.
backend_monthly ==
  /\ calc.fn = "none"
  /\ \E current_date \in Dates, recurrence_data \in {Null, 1, 2} :
       LET interval == IF recurrence_data # Null THEN recurrence_data ELSE 1
       IN  calc' = [fn |-> "backend", current_date |-> current_date, every |-> interval,
                    next_date |-> relativedelta_months(current_date, interval)]
  /\ UNCHANGED notCalc

NextMonthly ==
  \/ scheduler_monthly
  \/ backend_monthly

NoCalc == [fn |-> "none", via |-> "none", aware |-> FALSE, instant |-> 0, stored |-> 0]

(***************************************************************************)
(* The verbose callback of the agent hooks                                 *)
(***************************************************************************)
\* two calls of run_agent_streamed in one process
AgentRuns == {1, 2}

\* hooks.py line 63: _verbose_callback is None (0 here; else the run whose
\* closure it is); each run has its verbose flag, its verbose_queue, the
\* verbose events it has yielded to its caller and the number of hook events
\* its agent has produced
IdleRun == [pc |-> "idle", verbose |-> FALSE, queue |-> << >>, out |-> << >>,
            emitted |-> 0]
NoHooks == [callback |-> 0, run |-> [r \in AgentRuns |-> IdleRun]]

notHooks == <<wsVars, chatVars, dbVars, remVars, lastTool, notif, pipeVars,
              toolPair, toolCall, stream, convo, jwks, calc>>

\* hooks.py set_verbose_callback
set_verbose_callback(h, callback) == [h EXCEPT !.callback = callback]

\* hooks.py emit_verbose_event, called by the hooks of the run `from`: the
\* callback set last puts the event into the queue of the run that set it
emit_verbose_event(h, from) ==
  IF h.callback # 0
    THEN [h EXCEPT !.run[h.callback].queue = Append(@, from)]
    ELSE h

\* drain_verbose_queue: everything queued is yielded
drain_verbose_queue(q) == [q EXCEPT !.out = q.out \o q.queue, !.queue = << >>]

\* run_agent_streamed lines 270-286: the queue and, if verbose, the callback
run_agent_streamed_start ==
  \E r \in AgentRuns, verbose \in BOOLEAN :
    /\ hooks.run[r].pc = "idle"
    /\ LET h == [hooks EXCEPT !.run[r] = [IdleRun EXCEPT !.pc = "running",
                                                        !.verbose = verbose]]
       IN  hooks' = IF verbose THEN set_verbose_callback(h, r) ELSE h
    /\ UNCHANGED notHooks

\* a hook of the run's agent fires (on_start, on_model_start, on_tool_start,
\* ...): run_hooks is one instance for all runs and calls emit_verbose_event
hook_fires ==
  \E r \in AgentRuns :
    /\ hooks.run[r].pc = "running"
    /\ hooks.run[r].emitted < MaxStreamEvents
    /\ hooks' = [emit_verbose_event(hooks, r) EXCEPT !.run[r].emitted = @ + 1]
    /\ UNCHANGED notHooks

\* lines 345-349: a stream event arrives and a verbose run drains its queue
run_agent_streamed_drain ==
  \E r \in AgentRuns :
    /\ hooks.run[r].pc = "running"
    /\ hooks.run[r].verbose
    /\ hooks.run[r].queue # << >>
    /\ hooks' = [hooks EXCEPT !.run[r] = drain_verbose_queue(@)]
    /\ UNCHANGED notHooks

\* lines 473-476 and 512-515: the stream ends (or an exception is handled),
\* a verbose run drains what is left and, in the finally, sets the callback
\* to None
run_agent_streamed_finish ==
  \E r \in AgentRuns, raised \in BOOLEAN :
    /\ hooks.run[r].pc = "running"
    /\ LET q == hooks.run[r]
           h == [hooks EXCEPT !.run[r] =
                   [(IF q.verbose /\ ~raised THEN drain_verbose_queue(q) ELSE q)
                      EXCEPT !.pc = "done"]]
       IN  hooks' = IF q.verbose THEN set_verbose_callback(h, 0) ELSE h
    /\ UNCHANGED notHooks

NextHooks ==
  \/ run_agent_streamed_start
  \/ hook_fires
  \/ run_agent_streamed_drain
  \/ run_agent_streamed_finish

\* the notifier, the write pipeline and its consumers, and the chat's
\* tools before any request
InitEvents ==
  /\ notif = [handled |-> {}, status |-> "none", out |-> {}, failed |-> FALSE]
  /\ lastWrite = [via |-> "none", op |-> "none", ok |-> FALSE, code |-> 0,
                  task_id |-> 0, already_completed |-> FALSE, calls |-> << >>]
  /\ nWrites = 0
  /\ inbox = [sub \in Subscribers |-> {}]
  /\ audit = [events |-> << >>, rows |-> << >>, failed |-> FALSE,
              reply |-> [http |-> 0, status |-> None]]
  /\ recurring = [events |-> << >>, calls |-> << >>, posts |-> << >>, failed |-> FALSE,
                  reply |-> [http |-> 0, status |-> None]]
  /\ ws_out = [status |-> "none", failed |-> FALSE]
  /\ toolPair = [scheduled |-> "none", cancelled |-> "none", task_id |-> 0,
                 reminder_id |-> 0]
  /\ toolCall = [tool |-> "none", status |-> "none", invalid |-> FALSE,
                 user_id |-> NoUser, task_id |-> 0, before |-> EmptyDict, after |-> EmptyDict]
  /\ stream = NoStream
  /\ convo = NoConvo
  /\ jwks = NoJwks
  /\ calc = NoCalc
  /\ hooks = NoHooks

Init == InitWS /\ InitChat /\ InitDB /\ InitRem /\ InitTools /\ InitEvents

\* every subsystem but the socket service, which is at rest
InitQuietWS ==
  /\ InitWS /\ jwt_secret = DefaultSecret
  /\ InitChat /\ InitDB /\ InitRem /\ InitTools /\ InitEvents

Next == NextWS \/ NextChat \/ NextRem \/ NextTools \/ NextNotif \/ NextEvents
          \/ NextPair \/ NextConsume \/ NextRecur \/ NextStream \/ NextConvo
          \/ NextJwks \/ NextDates \/ NextMonthly \/ NextHooks \/ NextCommit
          \/ NextToolErrors

Spec == Init /\ [][Next]_vars
SpecWS == Init /\ [][NextWS]_vars
SpecChat == InitQuietWS /\ [][NextChat]_vars
SpecRem == InitQuietWS /\ [][NextRem]_vars
SpecTools == InitQuietWS /\ [][NextTools]_vars
SpecNotif == InitQuietWS /\ [][NextNotif]_vars
SpecWrites == InitQuietWS /\ [][NextWrites]_vars
SpecEvents == InitQuietWS /\ [][NextEvents]_vars
SpecPair == InitQuietWS /\ [][NextPair]_vars
SpecConsume == InitQuietWS /\ [][NextConsume]_vars
SpecMaterializer == InitQuietWS /\ [][NextMaterializer]_vars
SpecRecur == InitQuietWS /\ [][NextRecur]_vars
SpecStream == InitQuietWS /\ [][NextStream]_vars
SpecConvo == InitQuietWS /\ [][NextConvo]_vars
SpecJwks == InitQuietWS /\ [][NextJwks]_vars
SpecDates == InitQuietWS /\ [][NextDates]_vars
SpecMonthly == InitQuietWS /\ [][NextMonthly]_vars
SpecHooks == InitQuietWS /\ [][NextHooks]_vars
SpecCommit == InitQuietWS /\ [][NextCommit]_vars
SpecToolErrors == InitQuietWS /\ [][NextToolErrors]_vars
\* the socket service in development mode (the default jwt_secret)
SpecMgr == InitQuietWS /\ [][NextWS]_vars

\* C1: a task_update broadcast for user A is delivered only to sockets that
\* were registered with the manager for user A.
C1_BroadcastIsolation ==
  \A d \in delivered : regUser[d.sock] = d.user

\* A broadcast was delivered while a connected socket of another user was
\* registered.
C1_Witness ==
  \E d \in delivered :
    \E ws \in all_connections :
      /\ regUser[ws] # d.user
      /\ client_state[ws] = "CONNECTED"
      /\ ws \in DOMAIN user_map


Terminal == {"done", "error"}

\* C2: a /chat/stream run that was not cancelled emits exactly one terminal
\* event (done or error) and that event is the last of the stream.
C2_SingleTerminalEvent ==
  \A r \in Runs :
    /\ \A i \in 1..Len(sse[r]) : sse[r][i] \in Terminal => i = Len(sse[r])
    /\ chatPc[r] = "end" => Len(sse[r]) > 0 /\ sse[r][Len(sse[r])] \in Terminal

\* C7: every tool call of a chat run of user u is executed by the tool
\* server with session user_id u.
C7_ToolSessionUser ==
  \A e \in toolLog : e.session_user = e.chat_user



\* C3: in every reachable state each task has at most one reminder with
\* status pending.
C3_OnePendingPerTask ==
  \A t \in TaskIds :
    Cardinality({r \in DOMAIN reminders :
                   /\ reminders[r].task_id = t
                   /\ reminders[r].status = "pending"}) <= 1

\* C4: a reminder whose status is sent or failed keeps that status in every
\* step.
C4_TerminalStatus ==
  [][\A r \in DOMAIN reminders :
       (reminders[r].status \in {"sent", "failed"} /\ r \in DOMAIN reminders')
         => reminders'[r].status = reminders[r].status]_vars

\* C5: in every reachable state a reminder has status sent if and only if its
\* sent_at is non-null.
C5_SentIffSentAt ==
  \A r \in DOMAIN reminders :
    (reminders[r].status = "sent") <=> (reminders[r].sent_at # Null)

\* C6: once the handlers have returned, a row whose dapr_job_name is non-null
\* is pending and the job of that name is live.
C6_JobNameOnlyWhileLive ==
  InFlight = 0 =>
    \A r \in DOMAIN reminders :
      reminders[r].dapr_job_name # NoJob =>
        /\ reminders[r].status = "pending"
        /\ reminders[r].dapr_job_name \in DOMAIN jobs

\* C9: a create whose remind_at is at or before now schedules no job, and
\* returns after exactly one publish with status sent and sent_at set if the
\* publish succeeded, with status failed otherwise.
C9_PastDueCreate ==
  cr.past_due =>
    /\ cr.scheduled = 0
    /\ cr.pc = "done" =>
         /\ cr.pubs = 1
         /\ \/ cr.ok /\ cr.status = "sent" /\ cr.sent_at # Null
            \/ ~cr.ok /\ cr.status = "failed"

\* C10: every due event, from the callback or from the past-due path, has type
\* reminder.due, goes to reminder-events on one pub/sub component and carries
\* the payload fields reminder_id, task_id, user_id, title, due_at, remind_at.
C10_SameDueEvent ==
  \A e \in published :
    /\ e.event_type = "reminder.due"
    /\ e.topic = "reminder-events"
    /\ {"reminder_id", "task_id", "user_id", "title", "due_at", "remind_at"}
         \subseteq e.fields
    /\ \A f \in published : f.pubsub_name = e.pubsub_name

\* C8: a tool call in a session returns nothing that belongs to another user,
\* and a call that names a row of another user returns an error result and
\* changes no table.
C8_ToolIsolation ==
  /\ ~lastTool.read_foreign
  /\ lastTool.named_foreign =>
       lastTool.status = "error" /\ ~lastTool.changed

\* C11: every due event the reminder engine has published, from the callback
\* or from the past-due path, is on the topic the notifier consumes, and once
\* the notifier has handled it there is exactly one TaskUpdateEvent for it on
\* task-updates, of type task.reminder with action reminder.
C11_DueEventNotified ==
  \A e \in published :
    /\ e.topic = notification_config.reminders_topic
    /\ e.path \in notif.handled =>
         Cardinality({o \in notif.out :
                        /\ o.source = e.path
                        /\ o.topic = "task-updates"
                        /\ o.event_type = "task.reminder"
                        /\ "action" \in o.fields}) = 1

\* the event type and the action that belong to a write
EventTypeOf(op) ==
  CASE op = "create" -> "task.created" [] op = "update" -> "task.updated"
    [] op = "complete" -> "task.completed" [] op = "delete" -> "task.deleted"
ActionOf(op) ==
  CASE op = "create" -> "created" [] op = "update" -> "updated"
    [] op = "complete" -> "completed" [] op = "delete" -> "deleted"

\* the publish calls of a write are one to task-events and one to
\* task-updates, both about the written task and of the write's kind
PublishPair(w) ==
  /\ Len(w.calls) = 2
  /\ \E i, j \in 1..2 :
       /\ i # j
       /\ w.calls[i].topic = "task-events"
       /\ w.calls[i].data.event_type = EventTypeOf(w.op)
       /\ w.calls[i].data.task_id = w.task_id
       /\ w.calls[j].topic = "task-updates"
       /\ w.calls[j].data.action = ActionOf(w.op)
       /\ w.calls[j].data.task_id = w.task_id

ExpectedCode(op) ==
  CASE op = "create" -> 201 [] op = "update" -> 200
    [] op = "complete" -> 200 [] op = "delete" -> 204

\* C14: whatever the sidecar does with the two events of a REST task write,
\* the route answers as it does when both are accepted and the change is in
\* the database: the created row is there, the updated or completed row is
\* the one the event describes, the deleted row is gone.
C14_PublishFailureHarmless ==
  (lastWrite.via = "rest" /\ lastWrite.code # 404) =>
    /\ lastWrite.ok
    /\ lastWrite.code = ExpectedCode(lastWrite.op)
    /\ IF lastWrite.op = "delete"
         THEN lastWrite.task_id \notin DOMAIN tasks
         ELSE /\ lastWrite.task_id \in DOMAIN tasks
              /\ lastWrite.op = "complete" =>
                   tasks[lastWrite.task_id].completed
              /\ \A i \in DOMAIN lastWrite.calls :
                   lastWrite.calls[i].topic = "task-events" =>
                     lastWrite.calls[i].data.task_data
                       = extract_task_data(tasks[lastWrite.task_id])

\* a delete whose two events were both lost: 204 and the row is gone
C14_Witness ==
  /\ lastWrite.via = "rest"
  /\ lastWrite.op = "delete"
  /\ lastWrite.code = 204
  /\ Len(lastWrite.calls) = 2
  /\ \A i \in 1..2 : ~lastWrite.calls[i].ok
  /\ lastWrite.task_id \notin DOMAIN tasks

\* C13: every successful task write of the tool server (add_task, update_task,
\* complete_task, delete_task) makes one publish call to task-events and one
\* to task-updates, as the same write through the REST routes does.
C13_ToolWritesPublish ==
  (lastWrite.via = "tool" /\ lastWrite.ok) => PublishPair(lastWrite)

\* C15: the audit writer has inserted exactly one row per TaskEvent delivered
\* to it, with action the event_type, the event's user_id, resource_type task
\* and resource_id the event's task id.
C15_OneAuditRowPerDelivery ==
  /\ Len(audit.rows) = Len(audit.events)
  /\ \A i \in DOMAIN audit.rows :
       /\ audit.rows[i].action = audit.events[i].event_type
       /\ audit.rows[i].user_id = audit.events[i].user_id
       /\ audit.rows[i].resource_type = "task"
       /\ audit.rows[i].resource_id = audit.events[i].task_id

\* the deliveries to the materializer that report the completion of a
\* recurring task with a due date
CompletedRecurring ==
  {i \in DOMAIN recurring.events :
     /\ recurring.events[i].event_type = "task.completed"
     /\ recurring.events[i].task_data.recurring_pattern
          \in {"daily", "weekly", "monthly", "yearly"}
     /\ recurring.events[i].task_data.due_date # Null}

\* C16: for every task.completed event of a recurring task delivered to the
\* materializer, it has created exactly one new task for the same user with
\* the same recurrence pattern and the due date one interval later.
C16_NextOccurrenceCreated ==
  /\ Len(recurring.posts) = Cardinality(CompletedRecurring)
  /\ \A i \in CompletedRecurring :
       LET e == recurring.events[i]
       IN \E j \in DOMAIN recurring.posts :
            /\ recurring.posts[j].user_id = e.user_id
            /\ recurring.posts[j].recurring_pattern
                 = e.task_data.recurring_pattern
            /\ recurring.posts[j].due_date
                 = calculate_next_occurrence(e.task_data.due_date,
                                             e.task_data.recurring_pattern)

\* C18: the task_update message built for a task-updates event addressed to
\* user u goes to u's connections and identifies the event's task.
C18_TaskUpdateMessage ==
  ws_out.status = "success" =>
    /\ ws_out.user_id = ws_out.event.user_id
    /\ ws_out.message.type = "task_update"
    /\ get(ws_out.message.task, "id", 0) = ws_out.event.task_id

\* C17: a socket is registered with the broadcaster under user u only if it
\* presented a token whose verified subject is u; a socket turned away (no
\* token, a token that does not verify, a subject other than the path user)
\* is closed and is not registered.
C17_RegisteredOnlyAuthenticated ==
  \A s \in Sockets :
    /\ s \in all_connections =>
         /\ wsSubject[s] # NoUser
         /\ wsSubject[s] = regUser[s]
    /\ wsPc[s] = "closed" /\ regUser[s] = NoUser => s \notin all_connections

\* C19: a callback that does not find its reminder's row skips: it publishes
\* nothing and writes no row; and delete_reminder never removes the row of a
\* reminder between the callback's lookup of that row and its mark, so that
\* the callback fires completely before the deletion or skips.
C19_CallbackFiresOrSkips ==
  [][/\ (/\ cb.pc = "lookup"
         /\ cb' # cb
         /\ cb.data.reminder_id \notin DOMAIN reminders)
        => (cb' = IdleCb /\ published' = published /\ reminders' = reminders)
     /\ (dl.pc = "delete" /\ dl' # dl /\ cb.data.reminder_id = dl.rid)
        => cb.pc \notin {"publish", "mark"}]_vars

\* C20: right after schedule_reminder(t, future time) and cancel_reminder of
\* the reminder it created, task t has no pending reminder and the sidecar
\* has no job for that reminder.
C20_ScheduleThenCancel ==
  [][(toolPair' # toolPair /\ toolPair'.scheduled = "created") =>
       /\ toolPair'.cancelled = "deleted"
       /\ toolPair'.reminder_id \notin DOMAIN reminders'
       /\ ~\E r \in DOMAIN reminders' :
             /\ reminders'[r].task_id = toolPair'.task_id
             /\ reminders'[r].status = "pending"
       /\ job_name(toolPair'.reminder_id) \notin DOMAIN jobs']_vars

\* the pair has run for a task while the sidecar holds a job of another
\* reminder
C20_Witness ==
  /\ toolPair.scheduled = "created"
  /\ toolPair.cancelled = "deleted"
  /\ jobs # << >>

\* C21: in every consumer, a handling that failed is answered to the sidecar
\* with an error (a status of 500 or more, or a body whose status says error),
\* never with a plain 200.
C21_FailureReturnedAsError ==
  /\ audit.failed => (audit.reply.http >= 500 \/ audit.reply.status = "error")
  /\ recurring.failed =>
       (recurring.reply.http >= 500 \/ recurring.reply.status = "error")
  /\ ws_out.failed => ws_out.status = "error"
  /\ notif.failed => notif.status = "error"

\* C22: every tool call returns a result with a status and never raises, also
\* without a user_id on the session and with the database failing; a call with
\* an invalid argument returns status error.
C22_ToolsAnswerWithStatus ==
  /\ toolCall.status # "raised"
  /\ toolCall.invalid => toolCall.status = "error"

\* C23: stop_recurrence on a recurring task of the session user returns a
\* result that is no error and leaves the task not recurring, with pattern,
\* recurrence data and next_occurrence cleared and every other field as it was.
C23_StopRecurrenceClears ==
  (/\ toolCall.tool = "stop_recurrence"
   /\ "user_id" \in DOMAIN toolCall.before
   /\ toolCall.before.user_id = toolCall.user_id
   /\ toolCall.before.is_recurring) =>
     /\ toolCall.status # "error"
     /\ toolCall.after = [toolCall.before EXCEPT !.is_recurring = FALSE,
                                                 !.recurrence_pattern = None,
                                                 !.recurrence_data = Null,
                                                 !.next_occurrence = Null]

\* C24: skip_occurrence on a recurring task sets next_occurrence to its
\* previous value plus one interval (the pattern's unit times the task's
\* every:N) and sets completed to false.
C24_SkipAdvancesOneInterval ==
  (/\ toolCall.tool = "skip_occurrence"
   /\ "user_id" \in DOMAIN toolCall.before
   /\ toolCall.before.user_id = toolCall.user_id
   /\ toolCall.before.is_recurring
   /\ toolCall.before.recurrence_pattern \in VALID_PATTERNS
   /\ toolCall.before.next_occurrence # Null) =>
     /\ toolCall.status = "skipped"
     /\ toolCall.after.completed = FALSE
     /\ toolCall.after.next_occurrence =
          RecurringService_calculate_next_occurrence(
            toolCall.before.next_occurrence,
            toolCall.before.recurrence_pattern,
            toolCall.before.recurrence_data)

\* C25: every task with is_recurring true has a recurrence_pattern among
\* daily, weekly, monthly, yearly.
C25_RecurringHasPattern ==
  \A t \in DOMAIN tasks :
    tasks[t].is_recurring => tasks[t].recurrence_pattern \in VALID_PATTERNS

\* C26: a model exception whose message contains "429 Too Many Requests" is
\* written to the streaming client as an error event with code rate_limit
\* and the fixed rate-limit message, whatever other indicator words the
\* message contains.
C26_RateLimitReported ==
  (stream.exc # NoException /\ contains(stream.exc.msg, TooManyRequests)) =>
    \E i \in 1..Len(stream.out) :
      stream.out[i] = [event |-> "error", content |-> RateLimitError.user_message,
                       code |-> "rate_limit"]

\* A request ended after an exception whose message has "429 Too Many
\* Requests" and an authentication indicator as well.
C26_Witness ==
  /\ stream.pc = "end"
  /\ contains(stream.exc.msg, TooManyRequests)
  /\ contains(lower(stream.exc.msg), <<"u", "n", "a", "u", "t", "h", "o", "r", "i", "z", "e", "d">>)

\* C27: when the arguments of a tool call of the model do not parse as a
\* structured object, the run ends with an error event of code
\* invalid_response carrying a hint for the user, and the run is not started
\* again.
C27_MalformedArgumentsInvalidResponse ==
  stream.exc = MalformedToolArguments =>
    /\ stream.runs = 1
    /\ \E i \in 1..Len(stream.out) :
         /\ stream.out[i].event = "error"
         /\ stream.out[i].code = "invalid_response"
         /\ stream.out[i].content # UnknownError.user_message

\* C28: every SSE event of /chat/stream has a name in {thinking, token,
\* tool_call, tool_result, agent_updated, done, error} and none carries the
\* content of a reasoning event of the runner.
C28_NoReasoningToClient ==
  \A i \in 1..Len(stream.out) :
    /\ stream.out[i].event \in {"thinking", "token", "tool_call", "tool_result",
                                "agent_updated", "done", "error"}
    /\ stream.out[i].content # "reasoning_text"

\* A request ended whose runner yielded a reasoning event.
C28_Witness ==
  /\ stream.pc = "end"
  /\ \E i \in 1..Len(stream.yielded) : stream.yielded[i].type = "reasoning"

\* C29: a chat request of user u that names a conversation of another user
\* does not read that conversation's history and adds no message to it; it
\* uses a conversation owned by u that is not the named one.
C29_ForeignConversationNotUsed ==
  \A r \in ChatClients :
    LET q == convo.req[r]
    IN  (/\ q.pc # "idle"
         /\ \E c \in convo.conversations : c.id = q.asked /\ c.user_id # q.user_id)
        => /\ q.conversation # q.asked
           /\ \E c \in convo.conversations :
                c.id = q.conversation /\ c.user_id = q.user_id
           /\ \A m \in convo.messages :
                (m.id \in q.history \/ m.req = q.n) => m.conversation_id # q.asked

\* A request ended that named a conversation of another user in which a
\* message was stored before the request stored its own.
C29_Witness ==
  \E r \in ChatClients :
    LET q == convo.req[r]
    IN  /\ q.pc = "end"
        /\ \E c \in convo.conversations : c.id = q.asked /\ c.user_id # q.user_id
        /\ \E m, mine \in convo.messages :
             /\ m.conversation_id = q.asked
             /\ mine.req = q.n
             /\ m.id < mine.id

\* C30: of two messages of one conversation the one with the earlier
\* created_at has the smaller id, also when two chat requests on the
\* conversation run concurrently.
C30_IdFollowsCreatedAt ==
  \A m1, m2 \in convo.messages :
    (m1.conversation_id = m2.conversation_id /\ m1.created_at < m2.created_at)
      => m1.id < m2.id

C32_JwksCacheTtl ==
  \A c \in JwksCallers :
    LET q == jwks.call[c]
        young == q.cache_at_call # Null
                   /\ q.current_time - q.cache_time_at_call < jwks_cache_ttl
    IN  q.pc = "returned" =>
          /\ young => ~q.contacted /\ q.result = q.cache_at_call
          /\ ~young => q.contacted
          /\ q.failed => (q.result = Raised <=> q.cache_at_failure = Null)
          /\ (q.failed /\ q.cache_at_failure # Null) => q.result = q.cache_at_failure

\* A call returned the cached keys after a refetch failed on a cache older
\* than the TTL, and another call returned a young cache without a fetch.
C32_Witness ==
  \E c, e \in JwksCallers :
    /\ jwks.call[c].pc = "returned" /\ jwks.call[c].failed
    /\ jwks.call[c].cache_at_call # Null
    /\ jwks.call[c].current_time - jwks.call[c].cache_time_at_call >= jwks_cache_ttl
    /\ jwks.call[c].result = jwks.call[c].cache_at_call
    /\ jwks.call[e].pc = "returned" /\ ~jwks.call[e].contacted
    /\ jwks.calls > 2

\* C33: every change of the broadcaster's connection structures
\* (registration on connect, removal on disconnect, eviction during
\* broadcast, heartbeat or cleanup) is made while the manager's lock is held.
C33_MutationsUnderLock ==
  [][/\ (all_connections' \ all_connections # {}) => holds_lock("connect")
     /\ (all_connections \ all_connections' # {}) => holds_lock("disconnect")]_vars

\* C40: after any sequence of connect, disconnect and eviction calls the
\* manager's three structures agree: a socket is in a user's connection set
\* exactly when it is in all_connections and _user_map maps it to that user,
\* and no user has an empty connection set.
C40_ManagerStructuresAgree ==
  /\ \A ws \in Sockets, u \in Users :
       (u \in DOMAIN active_connections /\ ws \in active_connections[u])
         <=> (ws \in all_connections /\ ws \in DOMAIN user_map /\ user_map[ws] = u)
  /\ \A u \in DOMAIN active_connections : active_connections[u] # {}
  /\ DOMAIN user_map = all_connections

\* A socket whose endpoint is still in its loop was evicted, its user has no
\* entry any more, and another socket is still registered.
C40_Witness ==
  \E ws \in Sockets :
    /\ wsPc[ws] = "loop"
    /\ ws \notin all_connections
    /\ regUser[ws] \notin DOMAIN active_connections
    /\ all_connections # {}

\* C34: on every ingestion path (REST task create and update, reminder
\* create and update, the tools add_task, update_task and schedule_reminder)
\* a datetime given with a UTC offset is stored as the naive UTC value of the
\* same instant.
C34_StoredInstantIsUtc ==
  (calc.fn # "none" /\ calc.aware) => calc.stored = calc.instant

\* C35 as stated: the monthly next occurrence of a date is the same day in
\* the following month when that day exists, else the last day of the
\* following month, in the backend's and in the materializer's calculation.
C35_MonthlyFollowingMonth ==
  calc.fn \in {"scheduler", "backend"} =>
    LET d == calc.current_date
        year == IF d.month = 12 THEN d.year + 1 ELSE d.year
        month == IF d.month = 12 THEN 1 ELSE d.month + 1
        n == calc.next_date
    IN  /\ n.year = year /\ n.month = month
        /\ d.day <= days_in_month(year, month) => n.day = d.day
        /\ d.day > days_in_month(year, month) => n.day = days_in_month(year, month)

\* C35, amended: the same for an interval of one month, which is the
\* materializer's always and the backend's without recurrence_data.every (or
\* with every = 1); with every = N the backend's result lies N months on,
\* on the same day or the last day of that month.
C35_MonthlyFollowingMonthInterval ==
  calc.fn \in {"scheduler", "backend"} =>
    LET d == calc.current_date
        months == d.year * 12 + (d.month - 1) + calc.every
        year == months \div 12
        month == (months % 12) + 1
        n == calc.next_date
    IN  /\ n.year = year /\ n.month = month
        /\ n.day = IF d.day <= days_in_month(year, month)
                     THEN d.day ELSE days_in_month(year, month)
        /\ calc.fn = "scheduler" => calc.every = 1

\* The backend took 31 January of a leap year to 29 February.
C35_Witness ==
  /\ calc.fn = "backend" /\ calc.every = 1
  /\ calc.current_date = [year |-> 2024, month |-> 1, day |-> 31]
  /\ calc.next_date = [year |-> 2024, month |-> 2, day |-> 29]

\* C36: the materializer issues no create-task request for an event whose
\* event_type is not task.completed, nor for a task.completed event whose task
\* has no recurrence pattern or the pattern "none": every event handed to
\* create_next_occurrence is a task.completed event with a pattern, and every
\* task created for it answers one of those.
C36_MaterializerFilter ==
  /\ \A i \in DOMAIN recurring.calls :
       LET e == recurring.calls[i]
       IN  /\ e.event_type = "task.completed"
           /\ "recurring_pattern" \in DOMAIN e.task
           /\ e.task.recurring_pattern \notin {None, "none"}
  /\ Len(recurring.posts) <= Len(recurring.calls)

\* The materializer has been handed a task.created event of a daily task and
\* a task.completed event of a daily task, and has called for the next
\* occurrence of the second only.
C36_Witness ==
  /\ Len(recurring.events) = 2
  /\ \E i \in DOMAIN recurring.events :
       /\ recurring.events[i].event_type = "task.created"
       /\ "recurring_pattern" \in DOMAIN recurring.events[i].task
       /\ recurring.events[i].task.recurring_pattern = "daily"
  /\ Len(recurring.calls) = 1
  /\ recurring.calls[1].event_type = "task.completed"

C38_PublishedOnlyCommitted ==
  (lastWrite.via = "rest"
     /\ \E i \in DOMAIN lastWrite.calls : lastWrite.calls[i].ok)
    => /\ lastWrite.ok
       /\ lastWrite.op = "delete" => lastWrite.task_id \notin DOMAIN tasks

\* C39: whenever a tool returns status error, that call has left the database
\* unchanged: no task, tag, task-tag link or reminder was created, modified
\* or deleted by it.
C39_ErrorLeavesTables ==
  lastTool.status = "error" => ~lastTool.changed

====
